---- MODULE Spec2Model ----
(***************************************************************************)
(* EDMI console driver: framing codec (byte stuffing, CRC, envelope) and   *)
(* the response parsers of the command layer, as state machines.           *)
(* Byte buffers are sequences of 0..255; the code's 0-based offsets are     *)
(* kept and translated by At / Slice.                                      *)
(***************************************************************************)
EXTENDS Integers, Sequences, FiniteSets, TLC

(***************************************************************************)
(* Program constants (driver/edmi_enums.py)                                *)
(***************************************************************************)
EDMI_STX_IDEN == 2
EDMI_ETX_IDEN == 3
EDMI_DLE_IDEN == 16
EDMI_XON_IDEN == 17
EDMI_XOFF_IDEN == 19
EDMI_IDEN_CORRECTOR == 64
EDMI_E_FRAME_IDEN == 69
EDMI_MULTI_ERR_IDEN == 65521
EDMI_CLIENT_SERIAL_LENGTH == 6

EDMI_CLIENT_SERIAL == <<1, 43, 22, 104, 255, 255>>

\* EDMI_COMMAND_TYPE
CMD_READ_REGISTER_EXTENDED == 77
CMD_LOGIN == 76
CMD_FILE_ACCESS == 70

\* EDMI_COMMAND_EXTENSION
EXT_NO_EXTENSION == 78
EXT_FILE_READ == 82
EXT_FILE_INFO == 73
EXT_FILE_SEARCH == 83

\* EDMI_RESPONSE_CODE
ACK == 6
CAN == 24

\* EDMI_ERROR_CODE
ERR_NONE == 0
ERR_REGISTER_NOT_FOUND == 3
ERR_ACCESS_DENIED == 4
ERR_REQUEST_WRONG_LENGTH == 5
ERR_RESPONSE_CRC_ERROR == 11
ERR_REQUEST_RESPONSE_COMMAND_MISMATCH == 12
ERR_LOGIN_FAILED == 14
ERR_GET_METER_ATTENTION_FAILED == 16
ERR_RESPONSE_WRONG_LENGTH == 17
ERR_UNIMPLEMENTED_DATA_TYPE == 18

\* the last member of EDMI_ERROR_CODE: EDMI_ERROR_CODE(v) raises ValueError above it
ERR_LAST == 18

ESCAPE_SET ==
    {EDMI_STX_IDEN, EDMI_ETX_IDEN, EDMI_XON_IDEN, EDMI_XOFF_IDEN, EDMI_DLE_IDEN}

(***************************************************************************)
(* Bounds of the model                                                     *)
(***************************************************************************)
\* longest body (bytes after STX) of a buffer handed to the codec
MaxBody == 2

\* Bytes the codec inputs are drawn from: the escape set, the corrected forms
\* (b + 0x40) of its members, the corrector itself, E_FRAME and the extremes.
CodecBytes == {0, 2, 3, 16, 17, 19, 64, 66, 67, 69, 80, 81, 83, 255}

\* Meter serials of the requests (251308613 is the serial of the documented
\* scenarios; 528 = 0x00000210 has bytes inside the escape set).
MeterSerial == 251308613
SerialSample == {MeterSerial, 528}

(***************************************************************************)
(* Buffers                                                                 *)
(***************************************************************************)
\* mv[i], 0-based
At(mv, i) == mv[i + 1]

\* mv[a:b], 0-based, clamped like a Python slice (a, b >= 0)
Slice(mv, a, b) ==
    LET hi == IF b > Len(mv) THEN Len(mv) ELSE b
    IN  IF a >= hi THEN <<>> ELSE SubSeq(mv, a + 1, hi)

RECURSIVE SeqsUpTo(_, _)
\* every sequence over S of length <= n
SeqsUpTo(S, n) ==
    IF n = 0 THEN {<<>>}
    ELSE LET shorter == SeqsUpTo(S, n - 1)
         IN  shorter \cup {Append(s, x) : s \in {t \in shorter : Len(t) = n - 1}, x \in S}

RECURSIVE BitXor(_, _)
BitXor(a, b) ==
    IF a = 0 THEN b
    ELSE IF b = 0 THEN a
    ELSE (((a % 2) + (b % 2)) % 2) + (2 * BitXor(a \div 2, b \div 2))

\* struct.pack(">I", v) / int.from_bytes(b, "big")
PackU32(v) ==
    <<(v \div 16777216) % 256, (v \div 65536) % 256, (v \div 256) % 256, v % 256>>

RECURSIVE FromBytesBE(_)
\* int.from_bytes(b, "big") of at most 3 bytes (TLC's integers are 32-bit signed)
FromBytesBE(b) ==
    IF b = <<>> THEN 0
    ELSE 256 * FromBytesBE(SubSeq(b, 1, Len(b) - 1)) + b[Len(b)]

RECURSIVE PadLeft4(_)
PadLeft4(b) == IF Len(b) >= 4 THEN b ELSE PadLeft4(<<0>> \o b)

\* An unsigned 32-bit value as <<high 16 bits, low 16 bits>>: of an integer, and
\* of the big-endian bytes of a slice of at most 4 bytes.
U32OfInt(v) == <<v \div 65536, v % 65536>>
U32OfBytes(b) ==
    LET p == PadLeft4(b) IN <<p[1] * 256 + p[2], p[3] * 256 + p[4]>>

(***************************************************************************)
(* binascii.crc_hqx: CRC-CCITT, polynomial 0x1021, MSB first, no final XOR *)
(***************************************************************************)
\* x with bit k (of weight w = 2^k) inverted
ToggleBit(x, w) == IF (x \div w) % 2 = 1 THEN x - w ELSE x + w

\* one shift of the register; on carry the polynomial 0x1021 (bits 12, 5, 0) is XORed in
CrcShift(x) ==
    IF x >= 32768
    THEN ToggleBit(ToggleBit(((x * 2) % 65536) + 1, 32), 4096)
    ELSE x * 2

\* a ^ b on bytes, tabulated
Xor8 == [a \in 0..255 |-> [b \in 0..255 |-> BitXor(a, b)]]

\* crc_hqx's table: entry b is the register after b, placed in the high byte
\* of an empty register, has been shifted out
CrcTab ==
    [b \in 0..255 |->
        CrcShift(CrcShift(CrcShift(CrcShift(CrcShift(CrcShift(CrcShift(CrcShift(b * 256))))))))]

\* crc = ((crc << 8) & 0xFF00) ^ crctab[(crc >> 8) ^ byte]
CrcByte(crc, byte) ==
    LET t == CrcTab[Xor8[crc \div 256][byte]]
    IN  (Xor8[crc % 256][t \div 256] * 256) + (t % 256)

RECURSIVE CrcFrom(_, _, _)
\* the register after data[i..] has gone through it
CrcFrom(data, i, crc) ==
    IF i > Len(data) THEN crc
    ELSE LET c == CrcByte(crc, data[i])
         IN  IF c >= 0 THEN CrcFrom(data, i + 1, c) ELSE c

crc_hqx(data, crc) == CrcFrom(data, 1, crc)

(***************************************************************************)
(* Frame codec (driver/frames_codec/generics.py)                           *)
(***************************************************************************)
\* what an operator yields where the code raises ValueError (no byte is negative)
ValueErrorV == <<-1>>

\* loop body of edmi_post_process: one input byte to one or two output bytes
StuffByteDropsCorrector(b) ==
    IF b \in ESCAPE_SET THEN <<EDMI_DLE_IDEN, b>> ELSE <<b>>

StuffByteKeepsEtx(b) ==
    IF b \in ESCAPE_SET \ {EDMI_ETX_IDEN}
    THEN <<EDMI_DLE_IDEN, (b + EDMI_IDEN_CORRECTOR) % 256>>
    ELSE <<b>>

StuffByte(b) ==
    IF b \in ESCAPE_SET
    THEN <<EDMI_DLE_IDEN, (b + EDMI_IDEN_CORRECTOR) % 256>>
    ELSE <<b>>

RECURSIVE StuffTail(_)
StuffTail(s) ==
    IF s = <<>> THEN <<>> ELSE StuffByte(Head(s)) \o StuffTail(Tail(s))

edmi_post_process_EscapesStx(packet) ==
    IF Len(packet) = 0 THEN <<>>
    ELSE IF packet[1] # EDMI_STX_IDEN THEN ValueErrorV
    ELSE StuffTail(packet)

edmi_post_process(packet) ==
    IF Len(packet) = 0 THEN <<>>
    ELSE IF packet[1] # EDMI_STX_IDEN THEN ValueErrorV
    ELSE <<packet[1]>> \o StuffTail(Tail(packet))

RECURSIVE UnstuffFrom(_, _)
\* the while loop of edmi_pre_process from input index i (1-based)
UnstuffFrom(mv, i) ==
    IF i > Len(mv) THEN <<>>
    ELSE IF mv[i] = EDMI_DLE_IDEN
         THEN IF i + 1 > Len(mv) THEN ValueErrorV
              ELSE LET rest == UnstuffFrom(mv, i + 2)
                   IN  IF rest = ValueErrorV THEN ValueErrorV
                       ELSE <<(mv[i + 1] - EDMI_IDEN_CORRECTOR) % 256>> \o rest
         ELSE LET rest == UnstuffFrom(mv, i + 1)
              IN  IF rest = ValueErrorV THEN ValueErrorV
                  ELSE <<mv[i]>> \o rest

edmi_pre_process(packet) ==
    IF Len(packet) = 0 THEN <<>> ELSE UnstuffFrom(packet, 1)

edmi_validate_crc_LowByteOnly(frame) ==
    IF Len(frame) < 4 THEN ERR_RESPONSE_WRONG_LENGTH
    ELSE IF frame[1] # EDMI_STX_IDEN \/ frame[Len(frame)] # EDMI_ETX_IDEN
         THEN ERR_RESPONSE_WRONG_LENGTH
    ELSE IF crc_hqx(SubSeq(frame, 1, Len(frame) - 3), 0) % 256 # frame[Len(frame) - 1]
         THEN ERR_RESPONSE_CRC_ERROR
    ELSE ERR_NONE

edmi_validate_crc(frame) ==
    IF Len(frame) < 4 THEN ERR_RESPONSE_WRONG_LENGTH
    ELSE IF frame[1] # EDMI_STX_IDEN \/ frame[Len(frame)] # EDMI_ETX_IDEN
         THEN ERR_RESPONSE_WRONG_LENGTH
    ELSE LET data     == SubSeq(frame, 1, Len(frame) - 3)
             recv_crc == frame[Len(frame) - 2] * 256 + frame[Len(frame) - 1]
             calc_crc == crc_hqx(data, 0) % 65536
         IN  IF calc_crc # recv_crc THEN ERR_RESPONSE_CRC_ERROR ELSE ERR_NONE

edmi_begin_init_packet(serial, command_type, command_extension) ==
    IF ~(0 <= serial /\ serial \div 65536 <= 65535) THEN ValueErrorV
    ELSE <<EDMI_STX_IDEN, EDMI_E_FRAME_IDEN>> \o PackU32(serial)
         \o EDMI_CLIENT_SERIAL \o <<command_type % 256>>
         \o (IF command_extension # EXT_NO_EXTENSION
             THEN <<command_extension % 256>> ELSE <<>>)

edmi_end_init_packet_EtxBeforeStuffing(packet) ==
    LET crc == crc_hqx(packet, 0) % 65536
    IN  edmi_post_process(packet \o <<(crc \div 256) % 256, crc % 256, EDMI_ETX_IDEN>>)

edmi_end_init_packet(packet) ==
    LET crc      == crc_hqx(packet, 0) % 65536
        with_crc == packet \o <<(crc \div 256) % 256, crc % 256>>
        stuffed  == edmi_post_process(with_crc)
    IN  IF stuffed = ValueErrorV THEN ValueErrorV
        ELSE stuffed \o <<EDMI_ETX_IDEN>>

(***************************************************************************)
(* State of the codec: one buffer on its way through the encoder and back  *)
(***************************************************************************)
VARIABLES
    cpc,      \* where the buffer is: "input", "stuffed", "roundtrip",
              \* "framed", "received", "validated", "flipped", or "idle"
    packet,   \* the pre-stuff buffer (X of edmi_post_process, P of edmi_end_init_packet)
    wire,     \* the bytes as they go on the wire
    rxbuf,    \* the receiver's buffer after edmi_pre_process
    crcRes    \* what edmi_validate_crc said of rxbuf (-1: not called yet)

codecVars == <<cpc, packet, wire, rxbuf, crcRes>>

(***************************************************************************)
(* State of one request/response exchange of the command layer             *)
(***************************************************************************)
VARIABLES
    ppc,      \* "sent" (request written, no response yet), "wire" (the response
              \* frame is on the wire), "rx" (received and unstuffed), "parse"
              \* (CRC valid, parser not entered), "regs" (inside the register
              \* loop), "records" (inside the record loops), "done", or "idle"
    req,      \* the request: [op, serial]
    resp,     \* the response: the frame on the wire, then the unstuffed payload
              \* header | body | CRC | ETX
    regs,     \* the caller's registers (read_registers)
    idx,      \* the register parser's cursor into resp (0-based)
    regno,    \* the register the loop is at (1-based)
    rd,       \* the locals of the loops of edmi_parse_read_profile_payload
    out,      \* the structure a FILE_ACCESS parser fills
    result    \* [ret, exc]: the code returned (-1: none yet), the exception raised

parseVars == <<ppc, req, resp, regs, idx, regno, rd, out, result>>

(***************************************************************************)
(* State of Media.edmi_read_profile: one caller, one call after another on *)
(* the same Media instance                                                 *)
(***************************************************************************)
VARIABLES
    mpc,        \* where the call is: "ready" (no call yet), "login", "info_regs",
                \* "file_info", "channels", "search_from", "search_to", "read",
                \* "returned", or "idle"
    call,       \* the arguments: [survey, do_login, max_records, given]
    first_err,  \* first_err
    file_info,  \* file_info (EDMIFileInfo)
    pspec,      \* profile_spec: [Interval, ChannelsCount, ChannelsInfo, RecordsCount,
                \* StartRecord, FromDateTime, ToDateTime]
    loc,        \* [ch, from_start, to_start, to_datetime]: the channel loop's ch,
                \* from_search.StartRecord, to_search.StartRecord and .DateTime
    rrd,        \* the locals of _read_records
    fields_all, \* len(fields_all)
    cache,      \* self._profile_read_limit_cache
    sent,       \* the requests written in this call, each with what came back
    mret,       \* how the call ended: [kind, err, fields, exc]
    meter,      \* the meter and the calls so far: [K, calls, obeys, exceeded, prev,
                \* cache0]
    progress    \* what progress_cb was called with in this call, in order:
                \* <<records_read, total_records>> (the caller supplies one, as
                \* app.py does)

mediaVars == <<mpc, call, first_err, file_info, pspec, loc, rrd, fields_all,
               cache, sent, mret, meter, progress>>

(***************************************************************************)
(* State of the engine lock: caller threads on one Media instance          *)
(***************************************************************************)
VARIABLES
    lock,       \* self._lock: the thread that holds it, or NoThread
    th,         \* per thread: [pc, op, left], left = exchanges still to run
    ser,        \* SerialTransport._ser is open
    io          \* the thread whose request is on the transport, answered or not

lockVars == <<lock, th, ser, io>>

(***************************************************************************)
(* State of one SerialTransport._read_edmi_packet_sync                     *)
(***************************************************************************)
VARIABLES
    rpc,        \* "reading" (in the while loop), "returned", or "idle"
    line,       \* what the far end sends: [lead, frame], bytes and then one of
                \* the codec's frames (or none, frame = <<>>)
    stream,     \* the part of it that ser.read has not delivered yet
    buf,        \* buf
    in_frame,   \* in_frame
    rret        \* how the call ended: [kind, packet, exc]

readVars == <<rpc, line, stream, buf, in_frame, rret>>

(***************************************************************************)
(* State of one SerialTransport under the calls of its public methods      *)
(***************************************************************************)
VARIABLES
    _ser,       \* self._ser: "None" or "open" (a serial.Serial that is open)
    port_io,    \* how many calls were made on serial.Serial objects so far
    tcall       \* the last call: [n, name, fault, how], fault what pyserial
                \* did, how what the method gave its caller

transportVars == <<_ser, port_io, tcall>>

\* what each machine leaves alone
notCodecVars == <<parseVars, mediaVars, lockVars, readVars, transportVars>>
notParseVars == <<codecVars, mediaVars, lockVars, readVars, transportVars>>
notMediaVars == <<codecVars, parseVars, lockVars, readVars, transportVars>>
notLockVars == <<codecVars, parseVars, mediaVars, readVars, transportVars>>
notReadVars == <<codecVars, parseVars, mediaVars, lockVars, transportVars>>
notTransportVars == <<codecVars, parseVars, mediaVars, lockVars, readVars>>

vars == <<codecVars, parseVars, mediaVars, lockVars, readVars, transportVars>>

\* Buffers the driver builds: STX, then a body; and the real request headers.
CodecPackets ==
    {<<EDMI_STX_IDEN>> \o b : b \in SeqsUpTo(CodecBytes, MaxBody)}
    \cup {edmi_begin_init_packet(s, CMD_LOGIN, EXT_NO_EXTENSION) : s \in SerialSample}
    \cup {edmi_begin_init_packet(s, CMD_FILE_ACCESS, EXT_FILE_READ) : s \in SerialSample}

CodecIdle ==
    /\ cpc = "idle"
    /\ packet = <<>>
    /\ wire = <<>>
    /\ rxbuf = <<>>
    /\ crcRes = -1

CodecInit ==
    /\ cpc = "input"
    /\ packet \in CodecPackets
    /\ wire = <<>>
    /\ rxbuf = <<>>
    /\ crcRes = -1

\* edmi_post_process on the buffer itself
PostProcess ==
    /\ cpc = "input"
    /\ wire' = edmi_post_process(packet)
    /\ cpc' = "stuffed"
    /\ UNCHANGED <<packet, rxbuf, crcRes>>
    /\ UNCHANGED notCodecVars

\* edmi_pre_process on the stuffed buffer
PreProcessStuffed ==
    /\ cpc = "stuffed"
    /\ rxbuf' = edmi_pre_process(wire)
    /\ cpc' = "roundtrip"
    /\ UNCHANGED <<packet, wire, crcRes>>
    /\ UNCHANGED notCodecVars

\* edmi_end_init_packet: the frame as transmitted
EndInitPacket ==
    /\ cpc = "input"
    /\ wire' = edmi_end_init_packet(packet)
    /\ cpc' = "framed"
    /\ UNCHANGED <<packet, rxbuf, crcRes>>
    /\ UNCHANGED notCodecVars

\* the receive path's edmi_pre_process on the whole frame, ETX included
PreProcessFrame ==
    /\ cpc = "framed"
    /\ rxbuf' = edmi_pre_process(wire)
    /\ cpc' = "received"
    /\ UNCHANGED <<packet, wire, crcRes>>
    /\ UNCHANGED notCodecVars

\* edmi_pre_process on bytes handed over as received, whatever their end
PreProcessReceived ==
    /\ cpc = "input"
    /\ rxbuf' = edmi_pre_process(packet)
    /\ cpc' = "unstuffed"
    /\ UNCHANGED <<packet, wire, crcRes>>
    /\ UNCHANGED notCodecVars

ValidateCrc ==
    /\ cpc = "received"
    /\ crcRes' = edmi_validate_crc(rxbuf)
    /\ cpc' = "validated"
    /\ UNCHANGED <<packet, wire, rxbuf>>
    /\ UNCHANGED notCodecVars

\* bit k of byte i (1-based) inverted
FlipBit(frame, i, k) ==
    [frame EXCEPT ![i] = ToggleBit(frame[i], 2 ^ k)]

\* a single bit of a valid unstuffed frame is inverted strictly between STX and
\* ETX, and the damaged frame is validated
FlipAndValidate ==
    /\ cpc = "validated"
    /\ crcRes = ERR_NONE
    /\ \E i \in 2..(Len(rxbuf) - 1), k \in 0..7 :
          /\ rxbuf' = FlipBit(rxbuf, i, k)
          /\ crcRes' = edmi_validate_crc(FlipBit(rxbuf, i, k))
    /\ cpc' = "flipped"
    /\ UNCHANGED <<packet, wire>>
    /\ UNCHANGED notCodecVars

CodecNext ==
    \/ PostProcess
    \/ PreProcessStuffed
    \/ EndInitPacket
    \/ PreProcessFrame
    \/ PreProcessReceived
    \/ ValidateCrc
    \/ FlipAndValidate

(***************************************************************************)
(* Properties of the frame codec                                           *)
(***************************************************************************)
\* P | CRC(P), the CRC big-endian
WithCrc(p) ==
    LET c == crc_hqx(p, 0) IN p \o <<(c \div 256) % 256, c % 256>>

\* the positions of a frame strictly between its first and its last byte
Interior(f) == 2..(Len(f) - 1)

Framed == cpc \in {"framed", "received", "validated", "flipped"}

CorrectedBytes == {(b + EDMI_IDEN_CORRECTOR) % 256 : b \in ESCAPE_SET}

\* C1 (frame symmetry): for every buffer X that starts with STX,
\* edmi_pre_process(edmi_post_process(X)) is X, byte for byte.
Thm_C1_FrameSymmetry ==
    cpc = "roundtrip" => rxbuf = packet

\* a buffer in which a byte was escaped has come back from the round trip
Wit_C1_EscapedRoundTrip ==
    /\ cpc = "roundtrip"
    /\ Len(wire) > Len(packet)
    /\ rxbuf = packet

\* C2 (build/receive ordering): the frame of edmi_end_init_packet(P) is
\* stuffed(P | CRC(P)) followed by ETX, the receive path unstuffs it to
\* P | CRC(P) | ETX, and edmi_validate_crc accepts that with NONE.
Thm_C2_BuildReceive ==
    cpc = "validated" =>
        /\ wire = edmi_post_process(WithCrc(packet)) \o <<EDMI_ETX_IDEN>>
        /\ rxbuf = WithCrc(packet) \o <<EDMI_ETX_IDEN>>
        /\ crcRes = ERR_NONE

\* a real request header (13 bytes or more) went out and was accepted back
Wit_C2_HeaderAccepted ==
    /\ cpc = "validated"
    /\ Len(packet) >= 13
    /\ Len(wire) > Len(packet) + 3
    /\ crcRes = ERR_NONE

\* C3 (envelope invariant): in a transmitted frame STX occurs exactly once, at
\* offset 0, ETX exactly once, as the last byte, XON and XOFF never occur, and
\* every DLE is immediately followed by one of 0x42, 0x43, 0x50, 0x51, 0x53.
Thm_C3_Envelope ==
    Framed =>
        /\ {i \in 1..Len(wire) : wire[i] = EDMI_STX_IDEN} = {1}
        /\ {i \in 1..Len(wire) : wire[i] = EDMI_ETX_IDEN} = {Len(wire)}
        /\ \A i \in Interior(wire) : wire[i] \notin {EDMI_XON_IDEN, EDMI_XOFF_IDEN}
        /\ \A i \in 1..Len(wire) :
              wire[i] = EDMI_DLE_IDEN =>
                  /\ i + 1 < Len(wire)
                  /\ wire[i + 1] \in {66, 67, 80, 81, 83}

\* a frame whose body held STX and ETX themselves
Wit_C3_BodyHoldsStxEtx ==
    /\ cpc = "framed"
    /\ Len(packet) = 3
    /\ packet[2] = EDMI_STX_IDEN
    /\ packet[3] = EDMI_ETX_IDEN

\* C4 as stated (escape invariant): no byte of a transmitted frame at offset
\* >= 1 and before the trailing ETX is a member of the escape set.
Orig_C4_NoEscapeSetByte ==
    Framed => \A i \in Interior(wire) : wire[i] \notin ESCAPE_SET

\* C4 as amended: the only member of the escape set found at offset >= 1 and
\* before the trailing ETX is DLE, and each DLE there is the escape prefix of a
\* following byte b + 0x40 with b in the escape set.
Thm_C4_OnlyDlePrefix ==
    Framed =>
        \A i \in Interior(wire) :
            wire[i] \in ESCAPE_SET =>
                /\ wire[i] = EDMI_DLE_IDEN
                /\ (i + 1) \in Interior(wire)
                /\ wire[i + 1] \in CorrectedBytes

\* a frame that carries an escaped DLE: the prefix and the corrected 0x50
Wit_C4_EscapedDle ==
    /\ cpc = "framed"
    /\ \E i \in Interior(wire) :
          /\ wire[i] = EDMI_DLE_IDEN
          /\ wire[i + 1] = 80

\* C5 (CRC detection): inverting any single bit strictly between STX and ETX
\* of a frame that edmi_validate_crc accepts makes it answer
\* RESPONSE_CRC_ERROR.
Thm_C5_SingleBitDetected ==
    cpc = "flipped" => crcRes = ERR_RESPONSE_CRC_ERROR

\* the inverted bit was in the high CRC byte, the header and body intact
Wit_C5_CrcByteFlipped ==
    /\ cpc = "flipped"
    /\ SubSeq(rxbuf, 1, Len(packet)) = packet
    /\ rxbuf[Len(packet) + 1] # WithCrc(packet)[Len(packet) + 1]
    /\ crcRes = ERR_RESPONSE_CRC_ERROR


(***************************************************************************)
(* Response parsers                                                        *)
(***************************************************************************)

\* EDMI_TYPE codes of the register kinds the model reads
EDMI_TYPE_STRING == 65
EDMI_TYPE_BYTE == 67
EDMI_TYPE_FLOAT == 70
EDMI_TYPE_SHORT == 73
EDMI_TYPE_LONG == 76
EDMI_TYPE_WAVEFORM == 87

StringTypes == {65, 69, 71}      \* STRING, EFA_STRING, STRING_LONG

\* Python's None in EDMIRegister.ErrorCode
NoCode == -1

\* EDMIRegister.Value and EDMIFileField.Value: None, a number or a string
NoneValue == [present |-> FALSE, num |-> 0, str |-> <<>>]
NumValue(n) == [present |-> TRUE, num |-> n, str |-> <<>>]
StrValue(t) == [present |-> TRUE, num |-> 0, str |-> t]

\* what a call gave back: a returned code (ret, -1 when none) or an exception
NoResult == [ret |-> -1, exc |-> ""]
Returned(code) == [ret |-> code, exc |-> ""]
Raised(e) == [ret |-> -1, exc |-> e]

\* struct '>h' and '>i': big-endian two's complement
UnpackI16(b) ==
    LET u == (b[1] * 256) + b[2] IN IF u >= 32768 THEN u - 65536 ELSE u

UnpackI32(b) ==
    LET hi == IF b[1] >= 128 THEN b[1] - 256 ELSE b[1]
    IN (hi * 16777216) + (b[2] * 65536) + (b[3] * 256) + b[4]

FindNulNever(chunk) == -1

\* bytes.find(b"\x00"): 0-based position of the first NUL, -1 when none
RECURSIVE FindNul(_)
FindNul(chunk) ==
    IF chunk = <<>> THEN -1
    ELSE IF Head(chunk) = 0 THEN 0
    ELSE LET r == FindNul(Tail(chunk)) IN IF r < 0 THEN -1 ELSE r + 1

\* bytes.decode("ascii", "strict") succeeds
IsAscii(chunk) == \A i \in 1..Len(chunk) : chunk[i] < 128

\* EDMI_ERROR_CODE(v) succeeds
IsErrorCode(v) == v \in ERR_NONE..ERR_LAST

\* _parse_value for the register kinds of the model
\* (BYTE: b[0]; LONG: '>i'; SHORT: '>h'; FLOAT: '>f', the float kept as its
\* 32 bits; a type in neither table: "treat as float")
_parse_value(reg_type, chunk) ==
    IF reg_type = EDMI_TYPE_BYTE THEN NumValue(chunk[1])
    ELSE IF reg_type = EDMI_TYPE_LONG THEN NumValue(UnpackI32(chunk))
    ELSE IF reg_type = EDMI_TYPE_SHORT THEN NumValue(UnpackI16(chunk))
    ELSE NumValue(UnpackI32(chunk))

\* One pass of the loop of edmi_parse_read_registers_answer over register
\* reg with the cursor at idx0: the register and cursor after it, and the
\* result when the pass leaves the function (NoResult when the loop goes on).
NotFoundPassSkipsValue(r1, idx1) ==
    [reg |-> [r1 EXCEPT !.Value = NoneValue], idx |-> idx1 + r1.ValueLen, result |-> NoResult]

\* the REGISTER_NOT_FOUND branch: no value bytes follow the error byte
NotFoundPass(r1, idx1) ==
    [reg |-> [r1 EXCEPT !.Value = NoneValue], idx |-> idx1, result |-> NoResult]

RegisterPass(mv, reg, idx0) ==
    IF idx0 >= Len(mv)
    THEN [reg |-> reg, idx |-> idx0, result |-> Raised("IndexError")]
    ELSE
    LET data_end == Len(mv) - 3
        code == At(mv, idx0)
        r1 == [reg EXCEPT !.ErrorCode = code]
        idx1 == idx0 + 1
        value_len == reg.ValueLen
    IN
    IF code = ERR_NONE THEN
        IF reg.Type \in StringTypes THEN
            IF idx1 >= data_end
            THEN [reg |-> r1, idx |-> idx1, result |-> Returned(ERR_REQUEST_WRONG_LENGTH)]
            ELSE
            LET scan_len == IF value_len < data_end - idx1 THEN value_len ELSE data_end - idx1
                chunk == Slice(mv, idx1, idx1 + scan_len)
                nul == FindNul(chunk)
            IN
            IF nul >= 0 THEN
                IF IsAscii(SubSeq(chunk, 1, nul))
                THEN [reg |-> [r1 EXCEPT !.Value = StrValue(SubSeq(chunk, 1, nul))],
                      idx |-> idx1 + nul + 1, result |-> NoResult]
                ELSE [reg |-> r1, idx |-> idx1, result |-> Raised("UnicodeDecodeError")]
            ELSE IF scan_len < value_len
            THEN [reg |-> r1, idx |-> idx1, result |-> Returned(ERR_REQUEST_WRONG_LENGTH)]
            ELSE IF IsAscii(chunk)
            THEN [reg |-> [r1 EXCEPT !.Value = StrValue(chunk)],
                  idx |-> idx1 + value_len, result |-> NoResult]
            ELSE [reg |-> r1, idx |-> idx1, result |-> Raised("UnicodeDecodeError")]
        ELSE
            IF idx1 + value_len > data_end
            THEN [reg |-> r1, idx |-> idx1, result |-> Returned(ERR_REQUEST_WRONG_LENGTH)]
            ELSE [reg |-> [r1 EXCEPT !.Value = _parse_value(reg.Type, Slice(mv, idx1, idx1 + value_len))],
                  idx |-> idx1 + value_len, result |-> NoResult]
    ELSE IF code = ERR_REGISTER_NOT_FOUND THEN NotFoundPass(r1, idx1)
    ELSE
        LET r2 == [r1 EXCEPT !.Value = NoneValue] IN
        IF idx1 + value_len > data_end
        THEN [reg |-> r2, idx |-> idx1,
              result |-> IF IsErrorCode(code) THEN Returned(code) ELSE Raised("ValueError")]
        ELSE [reg |-> r2, idx |-> idx1, result |-> NoResult]

\* edmi_parse_read_registers_answer before its loop: the code it returns,
\* or NoResult when it enters the loop with idx = 17
RegistersHeader(mv) ==
    IF Len(mv) < 13 THEN Returned(ERR_REQUEST_WRONG_LENGTH)
    ELSE IF At(mv, 12) # CMD_READ_REGISTER_EXTENDED
    THEN Returned(ERR_REQUEST_RESPONSE_COMMAND_MISMATCH)
    ELSE IF U32OfBytes(Slice(mv, 13, 17)) # U32OfInt(EDMI_MULTI_ERR_IDEN)
    THEN Returned(ERR_REQUEST_RESPONSE_COMMAND_MISMATCH)
    ELSE IF Len(mv) < 3 THEN Returned(ERR_REQUEST_WRONG_LENGTH)
    ELSE NoResult

\* edmi_parse_login_answer
edmi_parse_login_answer_LengthLast(mv) ==
    IF Len(mv) > 12 /\ At(mv, 12) = ACK THEN ERR_NONE
    ELSE IF Len(mv) # 16 THEN ERR_RESPONSE_WRONG_LENGTH
    ELSE ERR_LOGIN_FAILED

edmi_parse_login_answer(mv) ==
    IF Len(mv) # 16 THEN ERR_RESPONSE_WRONG_LENGTH
    ELSE IF At(mv, 12) = ACK THEN ERR_NONE ELSE ERR_LOGIN_FAILED


\* EDMI_MAX value length of a name or string field
MAX_VALUE_LENGTH == 25

\* EDMIDateTime
DateTime(y, mo, d, h, mi, sec, isnull) ==
    [Year |-> y, Month |-> mo, Day |-> d, Hour |-> h, Minute |-> mi, Second |-> sec,
     IsNull |-> isnull]

\* The structures the FILE_ACCESS parsers write to, as one record: the fields
\* of EDMIFileInfo, EDMISearchFile and EDMIReadFile, profile_spec's
\* RecordsCount and ChannelsCount, and the list of fields read.
FileStruct(channels) ==
    [StartRecord |-> 0, RecordsCount |-> 0, RecordOffset |-> 0, RecordSize |-> 0,
     Type |-> 0, Name |-> <<>>, DateTime |-> DateTime(0, 0, 0, 0, 0, 0, TRUE),
     DirOrResult |-> 0, SpecRecordsCount |-> 0, ChannelsCount |-> channels,
     fields |-> <<>>]

FileAccessHead_AnyExtension(mv, extension) ==
    IF At(mv, 12) = CAN THEN
        IF 13 >= Len(mv) THEN Returned(ERR_REQUEST_WRONG_LENGTH)
        ELSE IF IsErrorCode(At(mv, 13)) THEN Returned(At(mv, 13))
        ELSE Returned(ERR_REQUEST_RESPONSE_COMMAND_MISMATCH)
    ELSE IF At(mv, 12) # CMD_FILE_ACCESS THEN Returned(ERR_REQUEST_RESPONSE_COMMAND_MISMATCH)
    ELSE IF 13 >= Len(mv) THEN Returned(ERR_REQUEST_WRONG_LENGTH)
    ELSE NoResult

\* what every FILE_ACCESS parser does with bytes 12 and 13: the code it
\* returns, or NoResult when the answer is 'F' with the extension asked for
FileAccessHead(mv, extension) ==
    IF At(mv, 12) = CAN THEN
        IF 13 >= Len(mv) THEN Returned(ERR_REQUEST_WRONG_LENGTH)
        ELSE IF IsErrorCode(At(mv, 13)) THEN Returned(At(mv, 13))
        ELSE Returned(ERR_REQUEST_RESPONSE_COMMAND_MISMATCH)
    ELSE IF At(mv, 12) # CMD_FILE_ACCESS THEN Returned(ERR_REQUEST_RESPONSE_COMMAND_MISMATCH)
    ELSE IF 13 >= Len(mv) THEN Returned(ERR_REQUEST_WRONG_LENGTH)
    ELSE IF At(mv, 13) # extension THEN Returned(ERR_REQUEST_RESPONSE_COMMAND_MISMATCH)
    ELSE NoResult

\* _read_cstring: [str, idx, result]
_read_cstring(mv, idx0, max_len) ==
    LET remaining == Len(mv) - idx0
        scan_len == IF max_len < remaining THEN max_len ELSE remaining
        chunk == Slice(mv, idx0, idx0 + scan_len)
        pos == FindNul(chunk)
        fail == [str |-> <<>>, idx |-> idx0, result |-> Returned(ERR_REQUEST_WRONG_LENGTH)]
        boom == [str |-> <<>>, idx |-> idx0, result |-> Raised("UnicodeDecodeError")]
    IN
    IF remaining <= 0 THEN fail
    ELSE IF pos >= 0 THEN
        IF IsAscii(SubSeq(chunk, 1, pos))
        THEN [str |-> SubSeq(chunk, 1, pos), idx |-> idx0 + pos + 1, result |-> Returned(ERR_NONE)]
        ELSE boom
    ELSE IF remaining < max_len THEN fail
    ELSE IF IsAscii(chunk)
    THEN [str |-> chunk, idx |-> idx0 + max_len, result |-> Returned(ERR_NONE)]
    ELSE boom

\* _read_datetime's value at idx0 (six bytes: day, month, year, hour, minute, second)
_read_datetime(mv, idx0) ==
    DateTime(At(mv, idx0 + 2), At(mv, idx0 + 1), At(mv, idx0), At(mv, idx0 + 3),
             At(mv, idx0 + 4), At(mv, idx0 + 5), FALSE)

\* edmi_parse_read_profile_info_access_payload: [out, result]
edmi_parse_read_profile_info_access_payload(mv, info) ==
    LET n == Len(mv)
        fail(code) == [out |-> info, result |-> Returned(code)]
        head == FileAccessHead(mv, EXT_FILE_INFO)
        name == _read_cstring(mv, 29, MAX_VALUE_LENGTH)
    IN
    IF n <= 12 THEN fail(ERR_REQUEST_WRONG_LENGTH)
    ELSE IF head # NoResult THEN [out |-> info, result |-> head]
    ELSE IF 14 + 4 > n THEN fail(ERR_REQUEST_WRONG_LENGTH)     \* reg_addr
    ELSE IF 18 + 4 > n THEN fail(ERR_REQUEST_WRONG_LENGTH)     \* start_record
    ELSE IF 22 + 4 > n THEN fail(ERR_REQUEST_WRONG_LENGTH)     \* records_count
    ELSE IF 26 + 2 > n THEN fail(ERR_REQUEST_WRONG_LENGTH)     \* record_size
    ELSE IF 28 >= n THEN fail(ERR_REQUEST_WRONG_LENGTH)        \* info_type
    ELSE IF name.result # Returned(ERR_NONE) THEN [out |-> info, result |-> name.result]
    ELSE [out |-> [info EXCEPT !.StartRecord = UnpackI32(Slice(mv, 18, 22)),
                               !.RecordsCount = UnpackI32(Slice(mv, 22, 26)),
                               !.RecordSize = UnpackI16(Slice(mv, 26, 28)),
                               !.Type = At(mv, 28),
                               !.Name = name.str],
          result |-> Returned(ERR_NONE)]

\* edmi_parse_search_profile_payload: [out, result]
edmi_parse_search_profile_payload(mv, search) ==
    LET n == Len(mv)
        fail(code) == [out |-> search, result |-> Returned(code)]
        head == FileAccessHead(mv, EXT_FILE_SEARCH)
    IN
    IF n <= 12 THEN fail(ERR_REQUEST_WRONG_LENGTH)
    ELSE IF head # NoResult THEN [out |-> search, result |-> head]
    ELSE IF 14 + 4 > n THEN fail(ERR_REQUEST_WRONG_LENGTH)     \* reg_addr
    ELSE IF 18 + 4 > n THEN fail(ERR_REQUEST_WRONG_LENGTH)     \* start_record
    ELSE IF 22 + 6 > n THEN fail(ERR_REQUEST_WRONG_LENGTH)     \* dt
    ELSE IF 28 >= n THEN fail(ERR_REQUEST_WRONG_LENGTH)        \* dir_or_result
    ELSE [out |-> [search EXCEPT !.StartRecord = UnpackI32(Slice(mv, 18, 22)),
                                 !.DateTime = _read_datetime(mv, 22),
                                 !.DirOrResult = At(mv, 28)],
          result |-> Returned(ERR_NONE)]


\* _read_value on the kinds of the model: [value, idx, result]
\* (BYTE/BOOLEAN, the string kinds, SHORT; a code outside EDMI_TYPE or a
\* kind _read_value has no branch for is UNIMPLEMENTED_DATA_TYPE)
_read_value(mv, idx0, value_type) ==
    LET short == [value |-> NoneValue, idx |-> idx0, result |-> Returned(ERR_REQUEST_WRONG_LENGTH)]
        cstr == _read_cstring(mv, idx0, MAX_VALUE_LENGTH)
    IN
    IF value_type = EDMI_TYPE_BYTE THEN
        IF idx0 + 1 > Len(mv) THEN short
        ELSE [value |-> NumValue(At(mv, idx0)), idx |-> idx0 + 1, result |-> Returned(ERR_NONE)]
    ELSE IF value_type \in StringTypes THEN
        [value |-> StrValue(cstr.str), idx |-> cstr.idx, result |-> cstr.result]
    ELSE IF value_type = EDMI_TYPE_SHORT THEN
        IF idx0 + 2 > Len(mv) THEN short
        ELSE [value |-> NumValue(UnpackI16(Slice(mv, idx0, idx0 + 2))), idx |-> idx0 + 2,
              result |-> Returned(ERR_NONE)]
    ELSE [value |-> NoneValue, idx |-> idx0, result |-> Returned(ERR_UNIMPLEMENTED_DATA_TYPE)]

\* _expected_value_len on the kinds of the model (-1: None)
_expected_value_len(value_type) ==
    IF value_type = EDMI_TYPE_BYTE THEN 1
    ELSE IF value_type = EDMI_TYPE_SHORT THEN 2
    ELSE -1

\* record_end of the record that starts at record_start
RecordEnd(mv, RecordSize, record_start) ==
    LET data_end == Len(mv) - 3 IN
    IF RecordSize > 0 /\ record_start + RecordSize < data_end
    THEN record_start + RecordSize ELSE data_end

\* edmi_parse_read_profile_payload up to its loops: [out, result], result
\* NoResult when it enters "for record in range(read.RecordsCount)" with
\* idx = 28; types is the Type of each profile_spec.ChannelsInfo entry
ReadFileHeader(mv, read, types) ==
    LET n == Len(mv)
        data_end == n - 3
        fail(code) == [out |-> read, result |-> Returned(code)]
        head == FileAccessHead(mv, EXT_FILE_READ)
        hdr == [read EXCEPT !.StartRecord = UnpackI32(Slice(mv, 18, 22)),
                            !.RecordsCount = UnpackI16(Slice(mv, 22, 24)),
                            !.RecordOffset = UnpackI16(Slice(mv, 24, 26)),
                            !.RecordSize = UnpackI16(Slice(mv, 26, 28)),
                            !.SpecRecordsCount = UnpackI16(Slice(mv, 22, 24))]
    IN
    IF n < 3 THEN fail(ERR_REQUEST_WRONG_LENGTH)
    ELSE IF data_end <= 12 THEN fail(ERR_REQUEST_WRONG_LENGTH)
    ELSE IF head # NoResult THEN [out |-> read, result |-> head]
    ELSE IF 14 + 4 > n THEN fail(ERR_REQUEST_WRONG_LENGTH)     \* reg_addr
    ELSE IF 18 + 4 > n THEN fail(ERR_REQUEST_WRONG_LENGTH)     \* start_record
    ELSE IF 22 + 2 > n THEN fail(ERR_REQUEST_WRONG_LENGTH)     \* records_count
    ELSE IF 24 + 2 > n THEN fail(ERR_REQUEST_WRONG_LENGTH)     \* record_offset
    ELSE IF 26 + 2 > n THEN fail(ERR_REQUEST_WRONG_LENGTH)     \* record_size
    ELSE IF hdr.RecordsCount <= 0 THEN [out |-> hdr, result |-> Returned(ERR_NONE)]
    ELSE IF read.ChannelsCount > Len(types)
    THEN [out |-> hdr, result |-> Returned(ERR_REQUEST_WRONG_LENGTH)]
    ELSE [out |-> hdr, result |-> NoResult]

(***************************************************************************)
(* One exchange: the request is out, the meter answers, Media receives,    *)
(* validates and parses the answer.                                        *)
(***************************************************************************)

\* bounds of the exchange
MaxData == 3        \* body bytes the meter adds after the head of its answer
MaxRegs == 3        \* registers in one read_registers call
StringLen == 2      \* ValueLen of a string register
MaxChannels == 2    \* channels of the profile

\* bytes the meter puts in a body: NONE / NUL, REGISTER_NOT_FOUND,
\* ACCESS_DENIED, and a byte that is no error code and no ASCII
DataBytes == {0, 3, 4, 255}

\* the operations of Media an exchange belongs to; "login_first" is the login
\* that edmi_read_registers and edmi_read_profile run before their own request
Ops == {"login", "login_first", "read_registers", "file_info", "file_search", "file_read"}

\* the command each request carries
CommandOf(op) ==
    IF op \in {"login", "login_first"} THEN CMD_LOGIN
    ELSE IF op = "read_registers" THEN CMD_READ_REGISTER_EXTENDED
    ELSE CMD_FILE_ACCESS

\* the 12 bytes before the response byte: STX, 'E', the echoed meter serial,
\* the client serial
ResponseHeader(serial) ==
    <<EDMI_STX_IDEN, EDMI_E_FRAME_IDEN>> \o PackU32(serial) \o EDMI_CLIENT_SERIAL

FileHead(extension) == <<CMD_FILE_ACCESS, extension, 0, 0, 3, 5, 0, 0, 0, 1>>

\* how the meter may begin its answer to an operation: nothing, ACK, CAN, the
\* register answer with the right and a wrong sentinel and with a first BYTE
\* register in it, and the FILE_ACCESS answers up to where their data begin
RegisterHeads ==
    {<<CMD_READ_REGISTER_EXTENDED>>,
     <<CMD_READ_REGISTER_EXTENDED, 0, 0, 255, 241>>,
     <<CMD_READ_REGISTER_EXTENDED, 0, 0, 255, 241, 0, 65>>,
     <<CMD_READ_REGISTER_EXTENDED, 0, 0, 255, 240>>}

FileHeads(op) ==
    IF op = "file_info"
    THEN {<<CMD_FILE_ACCESS>>, FileHead(EXT_FILE_SEARCH),
          FileHead(EXT_FILE_INFO), FileHead(EXT_FILE_INFO) \o <<0, 0, 0, 2, 0, 4>>}
    ELSE IF op = "file_search"
    THEN {<<CMD_FILE_ACCESS>>, FileHead(EXT_FILE_READ),
          FileHead(EXT_FILE_SEARCH), FileHead(EXT_FILE_SEARCH) \o <<1, 2, 26, 0, 30>>}
    ELSE {<<CMD_FILE_ACCESS>>, FileHead(EXT_FILE_INFO), FileHead(EXT_FILE_READ)}
         \cup {FileHead(EXT_FILE_READ) \o <<0, c, 0, 0, 0, z>> : c \in {1, 2}, z \in {0, 2}}

Heads(op) ==
    {<<>>, <<ACK>>, <<CAN>>}
    \cup (IF op \in {"login", "login_first"}
          THEN {<<CMD_LOGIN>>, <<CMD_READ_REGISTER_EXTENDED, 0, 0, 255, 241>>}
          ELSE IF op = "read_registers"
          THEN RegisterHeads \cup {<<CMD_LOGIN>>}
          ELSE FileHeads(op) \cup {<<CMD_READ_REGISTER_EXTENDED, 0, 0, 255, 241>>})

\* EDMIRegister as the parser sees it; a register a caller passes is fresh
\* (nothing read into it yet) or carries the value of an earlier read
Register(type, len, code, value) ==
    [Type |-> type, ValueLen |-> len, ErrorCode |-> code, Value |-> value]

RegisterKinds ==
    {Register(EDMI_TYPE_BYTE, 1, NoCode, NoneValue),
     Register(EDMI_TYPE_STRING, StringLen, NoCode, NoneValue),
     Register(EDMI_TYPE_SHORT, 2, ERR_NONE, NumValue(7)),
     Register(EDMI_TYPE_WAVEFORM, 4, NoCode, NoneValue)}

RegisterLists == SeqsUpTo(RegisterKinds, MaxRegs)

ChannelTypeLists ==
    SeqsUpTo({EDMI_TYPE_SHORT, EDMI_TYPE_STRING, EDMI_TYPE_WAVEFORM}, MaxChannels)

\* the loops' locals before the loops are entered
NoRead == [types |-> <<>>, record |-> 0, ch |-> 0, n |-> 0, cpr |-> 0, record_end |-> 0]

ParseInit ==
    /\ ppc = "sent"
    /\ req \in [op : Ops, serial : {MeterSerial}]
    /\ resp = <<>>
    /\ regs = <<>>
    /\ idx = 0
    /\ regno = 0
    /\ rd = NoRead
    /\ out = FileStruct(0)
    /\ result = NoResult

ParseIdle ==
    /\ ppc = "idle"
    /\ req = [op |-> "none", serial |-> 0]
    /\ resp = <<>>
    /\ regs = <<>>
    /\ idx = 0
    /\ regno = 0
    /\ rd = NoRead
    /\ out = FileStruct(0)
    /\ result = NoResult

\* the frame a meter puts on the wire for a body, its CRC right (off = 0) or
\* off by one
MeterFrame(body, off) ==
    LET crc == (crc_hqx(body, 0) + off) % 65536
    IN  Append(edmi_post_process(body \o <<crc \div 256, crc % 256>>), EDMI_ETX_IDEN)

\* The meter answers: header with the serial it echoes, a head, data bytes,
\* the CRC (right, or off by one) and ETX, byte-stuffed.
MeterAnswers ==
    /\ ppc = "sent"
    /\ \E echo \in SerialSample, h \in Heads(req.op),
          d \in SeqsUpTo(DataBytes, MaxData), off \in {0, 1} :
          resp' = MeterFrame(ResponseHeader(echo) \o h \o d, off)
    /\ ppc' = "wire"
    /\ UNCHANGED <<req, regs, idx, regno, rd, out, result>>
    /\ UNCHANGED notParseVars

\* received = read_edmi_packet(); payload = edmi_pre_process(received)
Receive ==
    /\ ppc = "wire"
    /\ LET payload == edmi_pre_process(resp) IN
       IF payload = ValueErrorV
       THEN /\ ppc' = "done"
            /\ result' = Raised("ValueError")
            /\ UNCHANGED resp
       ELSE /\ ppc' = "rx"
            /\ resp' = payload
            /\ UNCHANGED result
    /\ UNCHANGED <<req, regs, idx, regno, rd, out>>
    /\ UNCHANGED notParseVars

\* ret = edmi_validate_crc(payload): edmi_login returns a bad ret, the other
\* operations raise RuntimeError
Validate ==
    /\ ppc = "rx"
    /\ LET ret == edmi_validate_crc(resp) IN
       IF ret = ERR_NONE
       THEN ppc' = "parse" /\ UNCHANGED result
       ELSE /\ ppc' = "done"
            /\ result' = IF req.op = "login" THEN Returned(ret) ELSE Raised("RuntimeError")
    /\ UNCHANGED <<req, resp, regs, idx, regno, rd, out>>
    /\ UNCHANGED notParseVars


\* return edmi_parse_login_answer(payload); inside the other operations a
\* login that is not NONE raises RuntimeError
ParseLogin ==
    /\ ppc = "parse"
    /\ req.op \in {"login", "login_first"}
    /\ LET ret == edmi_parse_login_answer(resp) IN
       result' = IF req.op = "login_first" /\ ret # ERR_NONE
                 THEN Raised("RuntimeError") ELSE Returned(ret)
    /\ ppc' = "done"
    /\ UNCHANGED <<req, resp, regs, idx, regno, rd, out>>
    /\ UNCHANGED notParseVars

\* edmi_parse_read_registers_answer(payload, regs) up to its loop
ParseRegistersBegin ==
    /\ ppc = "parse"
    /\ req.op = "read_registers"
    /\ \E rl \in RegisterLists :
          /\ regs' = rl
          /\ LET r == RegistersHeader(resp) IN
             IF r # NoResult THEN
                 /\ ppc' = "done" /\ result' = r
                 /\ UNCHANGED <<idx, regno>>
             ELSE IF rl = <<>> THEN
                 /\ ppc' = "done" /\ result' = Returned(ERR_NONE)
                 /\ idx' = 17
                 /\ UNCHANGED regno
             ELSE
                 /\ ppc' = "regs" /\ idx' = 17 /\ regno' = 1
                 /\ UNCHANGED result
    /\ UNCHANGED <<req, resp, rd, out>>
    /\ UNCHANGED notParseVars

\* one pass of "for reg in regs", and the return after the last
RegisterLoop ==
    /\ ppc = "regs"
    /\ LET p == RegisterPass(resp, regs[regno], idx) IN
       /\ regs' = [regs EXCEPT ![regno] = p.reg]
       /\ idx' = p.idx
       /\ IF p.result # NoResult THEN
              /\ ppc' = "done" /\ result' = p.result
              /\ UNCHANGED regno
          ELSE IF regno = Len(regs) THEN
              /\ ppc' = "done" /\ result' = Returned(ERR_NONE)
              /\ UNCHANGED regno
          ELSE
              /\ regno' = regno + 1
              /\ UNCHANGED <<ppc, result>>
    /\ UNCHANGED <<req, resp, rd, out>>
    /\ UNCHANGED notParseVars

\* edmi_parse_read_profile_info_access_payload(payload, file_info)
ParseFileInfo ==
    /\ ppc = "parse"
    /\ req.op = "file_info"
    /\ LET r == edmi_parse_read_profile_info_access_payload(resp, out) IN
       out' = r.out /\ result' = r.result
    /\ ppc' = "done"
    /\ UNCHANGED <<req, resp, regs, idx, regno, rd>>
    /\ UNCHANGED notParseVars

\* edmi_parse_search_profile_payload(payload, search)
ParseFileSearch ==
    /\ ppc = "parse"
    /\ req.op = "file_search"
    /\ LET r == edmi_parse_search_profile_payload(resp, out) IN
       out' = r.out /\ result' = r.result
    /\ ppc' = "done"
    /\ UNCHANGED <<req, resp, regs, idx, regno, rd>>
    /\ UNCHANGED notParseVars

\* edmi_parse_read_profile_payload(payload, read_resp, profile_spec) up to its
\* loops
ParseFileReadBegin ==
    /\ ppc = "parse"
    /\ req.op = "file_read"
    /\ \E types \in ChannelTypeLists :
          LET r == ReadFileHeader(resp, FileStruct(Len(types)), types) IN
          /\ out' = r.out
          /\ IF r.result # NoResult THEN
                 /\ ppc' = "done" /\ result' = r.result
                 /\ UNCHANGED <<idx, rd>>
             ELSE
                 /\ ppc' = "records" /\ idx' = 28
                 /\ rd' = [types |-> types, record |-> 0, ch |-> 0,
                           n |-> r.out.ChannelsCount, cpr |-> r.out.ChannelsCount,
                           record_end |-> RecordEnd(resp, r.out.RecordSize, 28)]
                 /\ UNCHANGED result
    /\ UNCHANGED <<req, resp, regs, regno>>
    /\ UNCHANGED notParseVars

\* One pass of "for ch in range(channels_per_record)" (rd.ch = rd.n once the
\* loop is left), or the end of a record and the start of the next.  With
\* channels_per_record 0 the records left read nothing and add no field.
ReadFilePass ==
    /\ ppc = "records"
    /\ IF rd.ch < rd.n THEN
          LET type == rd.types[rd.ch + 1]
              expected_len == _expected_value_len(type)
              v == _read_value(Slice(resp, 0, rd.record_end), idx, type)
          IN
          IF /\ out.RecordSize > 0
             /\ \/ idx >= rd.record_end
                \/ expected_len >= 0 /\ idx + expected_len > rd.record_end
          THEN /\ rd' = [rd EXCEPT !.cpr = rd.ch, !.ch = rd.n]
               /\ out' = [out EXCEPT !.ChannelsCount = IF rd.record = 0 THEN rd.ch ELSE @]
               /\ UNCHANGED <<ppc, idx, result>>
          ELSE IF v.result # Returned(ERR_NONE)
          THEN /\ ppc' = "done" /\ result' = v.result
               /\ out' = [out EXCEPT !.fields = <<>>]
               /\ UNCHANGED <<idx, rd>>
          ELSE /\ out' = [out EXCEPT !.fields = Append(@, v.value)]
               /\ idx' = v.idx
               /\ rd' = [rd EXCEPT !.ch = @ + 1]
               /\ UNCHANGED <<ppc, result>>
       ELSE
          LET idx2 == IF out.RecordSize > 0 /\ idx < rd.record_end THEN rd.record_end ELSE idx IN
          /\ idx' = idx2
          /\ IF rd.record + 1 >= out.RecordsCount \/ rd.cpr = 0
             THEN /\ ppc' = "done" /\ result' = Returned(ERR_NONE)
                  /\ UNCHANGED rd
             ELSE /\ rd' = [rd EXCEPT !.record = @ + 1, !.ch = 0, !.n = rd.cpr,
                                      !.record_end = RecordEnd(resp, out.RecordSize, idx2)]
                  /\ UNCHANGED <<ppc, result>>
          /\ UNCHANGED out
    /\ UNCHANGED <<req, resp, regs, regno>>
    /\ UNCHANGED notParseVars

ParseNext ==
    \/ MeterAnswers
    \/ Receive
    \/ Validate
    \/ ParseLogin
    \/ ParseRegistersBegin
    \/ RegisterLoop
    \/ ParseFileInfo
    \/ ParseFileSearch
    \/ ParseFileReadBegin
    \/ ReadFilePass


(***************************************************************************)
(* Properties of the response parsers                                      *)
(***************************************************************************)

\* the response passed edmi_validate_crc and the operation's parser has run
Parsed == ppc = "done" /\ edmi_validate_crc(resp) = ERR_NONE

\* the meter serial the response echoes (bytes 2..5)
EchoedSerial == Slice(resp, 2, 6)

Claim_C7_Correlation ==
    (/\ req.op \in Ops \ {"login_first"}
     /\ Len(resp) >= 16
     /\ Parsed
     /\ \/ EchoedSerial # PackU32(req.serial)
        \/ At(resp, 12) \notin {CommandOf(req.op), CAN})
    => /\ result = Returned(ERR_REQUEST_RESPONSE_COMMAND_MISMATCH)
       /\ \A i \in 1..Len(regs) : regs[i] \in RegisterKinds
       /\ out = FileStruct(out.ChannelsCount)

\* a register answer that echoes serial 528 to a request for MeterSerial is
\* parsed to NONE and its value is read into the caller's register
Wit_C7_ForeignSerialAccepted ==
    /\ req.op = "read_registers"
    /\ Parsed
    /\ req.serial = MeterSerial
    /\ EchoedSerial = PackU32(528)
    /\ Slice(resp, 12, 19) = <<CMD_READ_REGISTER_EXTENDED, 0, 0, 255, 241, 0, 65>>
    /\ Len(resp) = 22
    /\ regs = <<Register(EDMI_TYPE_BYTE, 1, ERR_NONE, NumValue(65))>>
    /\ result = Returned(ERR_NONE)

\* C8 (CAN is a typed failure), as stated: when the byte at offset 12 is CAN
\* and an error byte e of the taxonomy follows it, each response parser
\* (READ_REGISTER_EXT, FILE_INFO, FILE_SEARCH, FILE_READ) returns e.
Claim_C8_CanIsTyped ==
    (/\ req.op \in {"read_registers", "file_info", "file_search", "file_read"}
     /\ Len(resp) >= 17
     /\ At(resp, 12) = CAN
     /\ IsErrorCode(At(resp, 13))
     /\ Parsed)
    => result = Returned(At(resp, 13))

\* CAN, REGISTER_NOT_FOUND as the whole body of a register answer: the
\* register parser says REQUEST_RESPONSE_COMMAND_MISMATCH
Wit_C8_RegisterParserDropsCause ==
    /\ req.op = "read_registers"
    /\ Parsed
    /\ EchoedSerial = PackU32(req.serial)
    /\ Len(resp) = 17
    /\ Slice(resp, 12, 14) = <<CAN, ERR_REGISTER_NOT_FOUND>>
    /\ result = Returned(ERR_REQUEST_RESPONSE_COMMAND_MISMATCH)

\* C9 (REGISTER_NOT_FOUND mid-batch): a pass of the register loop reads the
\* register's error byte at the cursor; when that byte is REGISTER_NOT_FOUND
\* the register gets Value None and ErrorCode 3, no other register changes,
\* the cursor moves by the error byte only, and the loop goes on with the next
\* register at that cursor, or returns NONE after the last.
Thm_C9_NotFoundMidBatch ==
    [][(ppc = "regs" /\ idx < Len(resp) - 3) =>
          /\ regs'[regno].ErrorCode = At(resp, idx)
          /\ At(resp, idx) = ERR_REGISTER_NOT_FOUND =>
                /\ regs' = [regs EXCEPT ![regno] =
                               [@ EXCEPT !.ErrorCode = ERR_REGISTER_NOT_FOUND, !.Value = NoneValue]]
                /\ idx' = idx + 1
                /\ IF regno < Len(regs)
                   THEN ppc' = "regs" /\ regno' = regno + 1 /\ result' = NoResult
                   ELSE ppc' = "done" /\ result' = Returned(ERR_NONE)]_vars

\* three BYTE registers read from 00 41 | 03 | 00 04: the second is not
\* found, the third is decoded from the two bytes right after the 03
Wit_C9_MissingThenDecoded ==
    /\ req.op = "read_registers"
    /\ Parsed
    /\ Slice(resp, 17, Len(resp) - 3) = <<0, 65, 3, 0, 4>>
    /\ regs = <<Register(EDMI_TYPE_BYTE, 1, ERR_NONE, NumValue(65)),
                Register(EDMI_TYPE_BYTE, 1, ERR_REGISTER_NOT_FOUND, NoneValue),
                Register(EDMI_TYPE_BYTE, 1, ERR_NONE, NumValue(4))>>
    /\ idx = 22
    /\ result = Returned(ERR_NONE)

\* C10 (value/error consistency), as stated: once
\* edmi_parse_read_registers_answer has returned, whatever its result, every
\* register of the request has a Value if and only if its ErrorCode is NONE.
Claim_C10_ValueIffNone ==
    (req.op = "read_registers" /\ result.exc = "" /\ Parsed) =>
        \A i \in 1..Len(regs) : regs[i].Value.present <=> regs[i].ErrorCode = ERR_NONE

\* a fresh BYTE register whose answer is 00 and no value byte: the parser
\* returns REQUEST_WRONG_LENGTH and leaves ErrorCode NONE beside no Value
Wit_C10_TruncatedValue ==
    /\ req.op = "read_registers"
    /\ Parsed
    /\ Slice(resp, 17, Len(resp) - 3) = <<0>>
    /\ regs = <<Register(EDMI_TYPE_BYTE, 1, ERR_NONE, NoneValue)>>
    /\ result = Returned(ERR_REQUEST_WRONG_LENGTH)



(***************************************************************************)
(* Media.edmi_read_profile                                                 *)
(***************************************************************************)

\* EDMISurvey
EDMISurvey_LS01 == 773
EDMISurvey_LS02 == 805
EDMISurvey_LS03 == 837

\* edmi_parse_read_registers_answer as one call: [regs, result]
RECURSIVE RegistersFrom(_, _, _, _)
RegistersFrom(mv, rl, k, idx0) ==
    IF k > Len(rl) THEN [regs |-> rl, result |-> Returned(ERR_NONE)]
    ELSE LET p == RegisterPass(mv, rl[k], idx0)
             r2 == [rl EXCEPT ![k] = p.reg]
         IN  IF p.result # NoResult THEN [regs |-> r2, result |-> p.result]
             ELSE RegistersFrom(mv, r2, k + 1, p.idx)

edmi_parse_read_registers_answer(mv, rl) ==
    LET h == RegistersHeader(mv) IN
    IF h # NoResult THEN [regs |-> rl, result |-> h]
    ELSE RegistersFrom(mv, rl, 1, 17)

\* edmi_get_file_info_regs: Profile Interval (LONG), Profile Channels Count (BYTE)
edmi_get_file_info_regs ==
    <<Register(EDMI_TYPE_LONG, 4, NoCode, NoneValue),
      Register(EDMI_TYPE_BYTE, 1, NoCode, NoneValue)>>

\* edmi_get_file_channel_regs: Type, UnitCode, ScalingCode (BYTE),
\* ScalingFactor (FLOAT), Name (STRING)
edmi_get_file_channel_regs ==
    <<Register(EDMI_TYPE_BYTE, 1, NoCode, NoneValue),
      Register(EDMI_TYPE_BYTE, 1, NoCode, NoneValue),
      Register(EDMI_TYPE_BYTE, 1, NoCode, NoneValue),
      Register(EDMI_TYPE_FLOAT, 4, NoCode, NoneValue),
      Register(EDMI_TYPE_STRING, MAX_VALUE_LENGTH, NoCode, NoneValue)>>

\* "if reg.ErrorCode not in (None, 0, NONE): return EDMI_ERROR_CODE(int(
\* reg.ErrorCode))" and then int(reg.Value) or float(reg.Value): the code
\* returned, the exception raised, or NoResult when the value is taken
TakeRegister(reg) ==
    IF reg.ErrorCode \notin {NoCode, ERR_NONE}
    THEN IF IsErrorCode(reg.ErrorCode) THEN Returned(reg.ErrorCode) ELSE Raised("ValueError")
    ELSE IF ~reg.Value.present THEN Raised("TypeError")
    ELSE NoResult

\* the same with str(reg.Value), which takes None as well
TakeRegisterStr(reg) ==
    IF reg.ErrorCode \notin {NoCode, ERR_NONE}
    THEN IF IsErrorCode(reg.ErrorCode) THEN Returned(reg.ErrorCode) ELSE Raised("ValueError")
    ELSE NoResult

\* edmi_set_profile_info: [out, result]
edmi_set_profile_info(info, rl) ==
    IF Len(rl) < 2 THEN [out |-> info, result |-> Returned(ERR_REQUEST_WRONG_LENGTH)]
    ELSE
    LET t1 == TakeRegister(rl[1])
        t2 == TakeRegister(rl[2])
        i1 == [info EXCEPT !.Interval = rl[1].Value.num]
    IN
    IF t1 # NoResult THEN [out |-> info, result |-> t1]
    ELSE IF t2 # NoResult THEN [out |-> i1, result |-> t2]
    ELSE [out |-> [i1 EXCEPT !.ChannelsCount = rl[2].Value.num + 1],
          result |-> Returned(ERR_NONE)]

\* edmi_set_file_channel_info: what it returns or raises (the channel's
\* descriptor itself is not read again by Media)
edmi_set_file_channel_info(rl) ==
    IF Len(rl) < 5 THEN Returned(ERR_REQUEST_WRONG_LENGTH)
    ELSE IF TakeRegister(rl[1]) # NoResult THEN TakeRegister(rl[1])
    ELSE IF TakeRegister(rl[2]) # NoResult THEN TakeRegister(rl[2])
    ELSE IF TakeRegister(rl[3]) # NoResult THEN TakeRegister(rl[3])
    ELSE IF TakeRegister(rl[4]) # NoResult THEN TakeRegister(rl[4])
    ELSE IF TakeRegisterStr(rl[5]) # NoResult THEN TakeRegisterStr(rl[5])
    ELSE Returned(ERR_NONE)

\* self._profile_read_limit_cache: a function from keys
\* <<survey, record_size, channels_count>> to limits
NoCache == [k \in {} |-> 0]

\* cache.get(key), 0 for None
CacheGet(c, key) == IF key \in DOMAIN c THEN c[key] ELSE 0

\* cache[key] = limit
CachePut(c, key, limit) ==
    [k \in DOMAIN c \cup {key} |-> IF k = key THEN limit ELSE c[k]]

\* "stale_keys = [key for key in cache if key[0] == survey]; del cache[key]"
Invalidate(c, survey) ==
    [k \in {q \in DOMAIN c : q[1] # survey} |-> c[k]]

\* per_read_limit at the top of _read_records
HeuristicLimitByInterval(survey, interval) ==
    IF survey = EDMISurvey_LS01 THEN 59
    ELSE IF interval > 0 THEN (86400 + interval - 1) \div interval
    ELSE 48

HeuristicLimit(survey, interval) ==
    IF survey = EDMISurvey_LS01 THEN 59
    ELSE IF survey = EDMISurvey_LS03 THEN 288
    ELSE IF interval > 0 THEN (86400 + interval - 1) \div interval
    ELSE 48

Min(a, b) == IF a < b THEN a ELSE b

PerReadLimitIgnoresCache(survey, interval, cached_limit) ==
    HeuristicLimit(survey, interval)

PerReadLimit(survey, interval, cached_limit) ==
    IF cached_limit # 0 THEN Min(HeuristicLimit(survey, interval), cached_limit)
    ELSE HeuristicLimit(survey, interval)

\* "per_read_limit = min(per_read_limit, read_resp.RecordsCount)" after a
\* short answer
ShrinkKeepsLimit(limit, returned) == limit

Shrink(limit, returned) == Min(limit, returned)

\* bounds of the profile download
MaxCalls == 2       \* calls of edmi_read_profile on the one Media instance
MaxK == 2           \* most records the meter may give per FILE_READ
MaxStart == 3       \* highest record number a FILE_SEARCH answers
MaxRecords == 2     \* the max_records a caller supplies, when it supplies one

\* faults of the transport: read timeout, I/O error, port closed by another
\* thread
Faults == {"TimeoutError", "OSError", "SerialNotReadyError"}

\* where each is met: the port is found closed when the request is to be
\* written, the others while the answer is awaited
FaultAt(f) == IF f = "SerialNotReadyError" THEN "write" ELSE "read"

\* What comes of one write_packet + read_edmi_packet + edmi_pre_process: a
\* fault at the write or at the read, or the unstuffed payload of the frame
\* the meter sent for a body (the first body also with a wrong CRC).
Answers(bodies) ==
    {[fault |-> f, at |-> FaultAt(f), payload |-> <<>>] : f \in Faults}
    \cup {[fault |-> "", at |-> "", payload |->
              edmi_pre_process(MeterFrame(ResponseHeader(MeterSerial) \o b, 0))] : b \in bodies}
    \cup {[fault |-> "", at |-> "", payload |->
              edmi_pre_process(MeterFrame(ResponseHeader(MeterSerial) \o <<ACK>>, 1))]}

\* the exception the exchange ends in before any parser runs, NoResult if none
Received(a) ==
    IF a.fault # "" THEN Raised(a.fault)
    ELSE IF a.payload = ValueErrorV THEN Raised("ValueError")
    ELSE IF edmi_validate_crc(a.payload) # ERR_NONE THEN Raised("RuntimeError")
    ELSE NoResult

RegisterHead == <<CMD_READ_REGISTER_EXTENDED, 0, 0, 255, 241>>

\* the meter's answers to each request of the download
LoginAnswers == Answers({<<ACK>>, <<CAN>>})

\* info registers: both read (interval 43200 s, 2 channels), both missing,
\* the second missing, the first denied, the request cancelled
InfoAnswers ==
    Answers({RegisterHead \o <<0>> \o PackU32(43200) \o <<0, 1>>,
             RegisterHead \o <<ERR_REGISTER_NOT_FOUND, ERR_REGISTER_NOT_FOUND>>,
             RegisterHead \o <<0>> \o PackU32(43200) \o <<ERR_REGISTER_NOT_FOUND>>,
             RegisterHead \o <<ERR_ACCESS_DENIED>>,
             <<CAN, ERR_ACCESS_DENIED>>})

\* FILE_INFO: start 1, 9 records of 4 bytes, type 0, name "A"; cancelled with
\* REGISTER_NOT_FOUND or ACCESS_DENIED; cut short
FileInfoAnswers ==
    Answers({FileHead(EXT_FILE_INFO) \o <<0, 0, 0, 9, 0, 4, 0, 65, 0>>,
             <<CAN, ERR_REGISTER_NOT_FOUND>>, <<CAN, ERR_ACCESS_DENIED>>,
             FileHead(EXT_FILE_INFO)})

\* channel descriptors: all five read (type SHORT, scaling 1.0, name "A"), all
\* missing, the request cancelled
ChannelAnswers ==
    Answers({RegisterHead \o <<0, EDMI_TYPE_SHORT, 0, 1, 0, 1, 0, 63, 128, 0, 0, 0, 65, 0>>,
             RegisterHead \o <<3, 3, 3, 3, 3>>,
             <<CAN, ERR_ACCESS_DENIED>>})

\* FILE_SEARCH: found at record start (the window begins at record 1 and
\* ends at record MaxStart, or the meter has nothing up to its end and answers
\* record 0), which the meter stored on 18/01/26 at start o'clock; cancelled
SearchAnswers(start) ==
    Answers({<<CMD_FILE_ACCESS, EXT_FILE_SEARCH, 0, 0, 3, 5>> \o PackU32(start)
                 \o <<18, 1, 26, start, 0, 0, 0>>,
             <<CAN, ERR_ACCESS_DENIED>>})

\* FILE_READ up to the parser: only the faults and the CRC matter here
ReadAnswers == Answers({<<CMD_FILE_ACCESS, EXT_FILE_READ>>})

\* What edmi_parse_read_profile_payload makes of a FILE_READ answer, as the
\* meter decides it: an error code, or NONE with
\* the header's records_count r, the ChannelsCount cc it leaves in
\* profile_spec and nf fields: no records, or r whole records.
ReadResults(chunk, spec) ==
    {[err |-> e, r |-> 0, cc |-> spec.ChannelsCount, nf |-> 0] :
        e \in {ERR_NONE, ERR_ACCESS_DENIED}}
    \cup (IF spec.ChannelsCount > spec.ChannelsInfo
          THEN {[err |-> ERR_REQUEST_WRONG_LENGTH, r |-> r,
                 cc |-> spec.ChannelsCount, nf |-> 0] : r \in 1..chunk}
          ELSE {[err |-> ERR_NONE, r |-> r, cc |-> spec.ChannelsCount,
                 nf |-> r * spec.ChannelsCount] : r \in 1..(chunk + 1)})

\* one line of the log of requests: what was asked (arg: the channel of a
\* descriptor read, the count of a FILE_READ), and what the parser said of the
\* answer (r: records_count of a FILE_READ answer; err: -1 when none ran);
\* start: the first record a FILE_READ asks for
Entry(kind, arg, r, err) ==
    [kind |-> kind, arg |-> arg, r |-> r, err |-> err, start |-> 0]

\* lines 536-543: the FILE_READ request carries next_start and chunk
ReadEntry(next_start, chunk, r, err) ==
    [Entry("FILE_READ", chunk, r, err) EXCEPT !.start = next_start]

\* the structures as edmi_read_profile creates them
NewFileInfo ==
    [Interval |-> 0, ChannelsCount |-> 0, StartRecord |-> 0, RecordsCount |-> 0,
     RecordSize |-> 0, Type |-> 0, Name |-> <<>>]

\* lines 448-449: from_dt and to_dt, the window the caller asks for
from_dt == DateTime(26, 1, 17, 0, 30, 0, FALSE)
to_dt == DateTime(26, 1, 18, 0, 30, 0, FALSE)

\* lines 451-456: the search structure of _search(dt)
NewSearch(start, dt) ==
    [StartRecord |-> start, DateTime |-> dt, DirOrResult |-> 0]

\* lines 282-293: the profile_spec edmi_read_profile starts from (StartRecord
\* is no attribute of it yet: -1)
NewProfileSpec ==
    [Interval |-> 0, ChannelsCount |-> 0, ChannelsInfo |-> 0, RecordsCount |-> 0,
     StartRecord |-> -1, FromDateTime |-> DateTime(0, 0, 0, 0, 0, 0, TRUE),
     ToDateTime |-> DateTime(0, 0, 0, 0, 0, 0, TRUE)]

NoRecords ==
    [per_read_limit |-> 0, remaining |-> 0, next_start |-> 0, records_read |-> 0,
     total |-> 0, cache_key |-> <<>>]

NoReturn == [kind |-> "none", err |-> -1, fields |-> 0, exc |-> ""]
ReturnOf(err, fields) == [kind |-> "return", err |-> err, fields |-> fields, exc |-> ""]
RaiseOf(exc) == [kind |-> "raise", err |-> -1, fields |-> 0, exc |-> exc]

\* caches earlier calls can have left behind
InitialCaches ==
    {NoCache,
     [k \in {<<EDMISurvey_LS01, 4, 2>>, <<EDMISurvey_LS02, 4, 2>>,
              <<EDMISurvey_LS03, 4, 2>>} |-> 3]}

MediaIdle ==
    /\ mpc = "idle"
    /\ call = [survey |-> 0, do_login |-> FALSE, max_records |-> -1]
    /\ first_err = ERR_NONE
    /\ file_info = NewFileInfo
    /\ pspec = NewProfileSpec
    /\ loc = [ch |-> 0, from_start |-> 0, to_start |-> 0, to_datetime |-> to_dt]
    /\ rrd = NoRecords
    /\ fields_all = 0
    /\ cache = NoCache
    /\ sent = <<>>
    /\ mret = NoReturn
    /\ meter = [K |-> 0, calls |-> 0, obeys |-> FALSE, exceeded |-> FALSE,
                cache0 |-> NoCache]
    /\ progress = <<>>

\* Media(): the cache is what earlier calls left; the meter gives at most K
\* records per FILE_READ when it behaves; the caller is after one survey;
\* calls: how many of the MaxCalls calls are over
MediaInitAfter(calls) ==
    /\ mpc = "ready"
    /\ \E survey \in {EDMISurvey_LS01, EDMISurvey_LS02, EDMISurvey_LS03} :
          call = [survey |-> survey, do_login |-> FALSE, max_records |-> -1]
    /\ first_err = ERR_NONE
    /\ file_info = NewFileInfo
    /\ pspec = NewProfileSpec
    /\ loc = [ch |-> 0, from_start |-> 0, to_start |-> 0, to_datetime |-> to_dt]
    /\ rrd = NoRecords
    /\ fields_all = 0
    /\ cache \in InitialCaches
    /\ sent = <<>>
    /\ mret = NoReturn
    /\ \E K \in 1..MaxK :
          meter = [K |-> K, calls |-> calls, obeys |-> FALSE, exceeded |-> FALSE,
                   cache0 |-> cache]
    /\ progress = <<>>

MediaInit == MediaInitAfter(0)

\* the call raises: the exception leaves edmi_read_profile, its locals are gone
Raise(exc, log) ==
    /\ mpc' = "returned"
    /\ mret' = RaiseOf(exc)
    /\ sent' = log
    /\ UNCHANGED <<call, first_err, file_info, pspec, loc, rrd, fields_all, cache, meter, progress>>

\* "first_err = err" when err is an error and first_err is still NONE
FirstErr(fe, err) == IF err # ERR_NONE /\ fe = ERR_NONE THEN err ELSE fe

\* lines 433-446: profile_spec once the channels are known
SpecAfterChannels(spec, info, channels) ==
    [spec EXCEPT
        !.Interval = IF info.Interval # 0 THEN info.Interval ELSE spec.Interval,
        !.ChannelsCount = IF info.ChannelsCount # 0 THEN info.ChannelsCount
                          ELSE IF spec.ChannelsCount <= 0 THEN channels
                          ELSE spec.ChannelsCount,
        !.ChannelsInfo = IF channels # 0 THEN channels ELSE spec.ChannelsInfo,
        !.RecordsCount = 0]

\* lines 619-633: what edmi_read_profile returns once _read_records gave
\* (fields, err), and profile_spec as it returns it
FinalSpecKeepsWindow(spec, fields, channels_count, from_start, to_datetime) ==
    [spec EXCEPT !.StartRecord = from_start,
                 !.FromDateTime = from_dt,
                 !.ToDateTime = to_dt,
                 !.RecordsCount = fields \div channels_count]

FinalSpec(spec, fields, channels_count, from_start, to_datetime) ==
    [spec EXCEPT !.StartRecord = from_start,
                 !.FromDateTime = from_dt,
                 !.ToDateTime = to_datetime,
                 !.RecordsCount = fields \div channels_count]

FinalReturn(fe, spec, fields, err, from_start, to_datetime) ==
    LET channels_count == IF spec.ChannelsCount # 0 THEN spec.ChannelsCount
                          ELSE spec.ChannelsInfo
    IN
    IF err # ERR_NONE
    THEN [ret |-> ReturnOf(IF fe # ERR_NONE THEN fe ELSE err, fields), spec |-> spec]
    ELSE IF channels_count <= 0
    THEN [ret |-> ReturnOf(ERR_REQUEST_WRONG_LENGTH, fields), spec |-> spec]
    ELSE [ret |-> ReturnOf(fe, fields),
          spec |-> FinalSpec(spec, fields, channels_count, from_start, to_datetime)]

\* edmi_read_profile(...) is called: the lock is taken, the locals are set up
Call ==
    /\ mpc \in {"ready", "returned"}
    /\ meter.calls < MaxCalls
    /\ \E do_login \in BOOLEAN, max_records \in {-1, 0, MaxRecords} :
          /\ call' = [survey |-> call.survey, do_login |-> do_login,
                      max_records |-> max_records]
          /\ mpc' = IF do_login THEN "login" ELSE "info_regs"
    /\ pspec' = NewProfileSpec
    /\ first_err' = ERR_NONE
    /\ file_info' = NewFileInfo
    /\ loc' = [ch |-> 0, from_start |-> 0, to_start |-> 0, to_datetime |-> to_dt]
    /\ rrd' = NoRecords
    /\ fields_all' = 0
    /\ sent' = <<>>
    /\ mret' = NoReturn
    /\ meter' = [meter EXCEPT
                    !.calls = @ + 1, !.obeys = TRUE, !.exceeded = FALSE, !.cache0 = cache]
    /\ progress' = <<>>
    /\ UNCHANGED cache
    /\ UNCHANGED notMediaVars

\* lines 299-315: the login of the download
LoginStep ==
    /\ mpc = "login"
    /\ \E a \in LoginAnswers :
          LET rx == Received(a)
              ret == edmi_parse_login_answer(a.payload)
          IN
          IF a.at = "write" THEN Raise(rx.exc, sent)
          ELSE IF rx # NoResult THEN Raise(rx.exc, Append(sent, Entry("LOGIN", 0, -1, -1)))
          ELSE IF ret # ERR_NONE
          THEN Raise("RuntimeError", Append(sent, Entry("LOGIN", 0, -1, ret)))
          ELSE /\ mpc' = "info_regs"
               /\ sent' = Append(sent, Entry("LOGIN", 0, -1, ret))
               /\ UNCHANGED <<call, first_err, file_info, pspec, loc, rrd, fields_all,
                              cache, mret, meter, progress>>
    /\ UNCHANGED notMediaVars

\* lines 317-358: the two info registers, edmi_set_profile_info, and the
\* return on REGISTER_NOT_FOUND with the survey's limits forgotten
InfoStep ==
    /\ mpc = "info_regs"
    /\ \E a \in InfoAnswers :
          LET rx == Received(a)
              parsed == edmi_parse_read_registers_answer(a.payload, edmi_get_file_info_regs)
              set == edmi_set_profile_info(NewFileInfo, parsed.regs)
              fe1 == FirstErr(first_err, parsed.result.ret)
              fe2 == FirstErr(fe1, set.result.ret)
              log(err) == Append(sent, Entry("INFO_REGS", 0, -1, err))
          IN
          IF a.at = "write" THEN Raise(rx.exc, sent)
          ELSE IF rx # NoResult THEN Raise(rx.exc, log(-1))
          ELSE IF parsed.result.exc # "" THEN Raise(parsed.result.exc, log(-1))
          ELSE IF set.result.exc # "" THEN Raise(set.result.exc, log(parsed.result.ret))
          ELSE
              /\ sent' = log(IF parsed.result.ret # ERR_NONE THEN parsed.result.ret
                             ELSE set.result.ret)
              /\ first_err' = fe2
              /\ file_info' = set.out
              /\ IF set.result.ret = ERR_REGISTER_NOT_FOUND
                 THEN /\ cache' = Invalidate(cache, call.survey)
                      /\ mpc' = "returned"
                      /\ mret' = ReturnOf(set.result.ret, 0)
                 ELSE /\ mpc' = "file_info"
                      /\ UNCHANGED <<cache, mret>>
              /\ UNCHANGED <<call, pspec, loc, rrd, fields_all, meter, progress>>
    /\ UNCHANGED notMediaVars

\* lines 360-379 (and 433-446 when there is no channel to read): FILE_INFO
FileInfoStep ==
    /\ mpc = "file_info"
    /\ \E a \in FileInfoAnswers :
          LET rx == Received(a)
              p == edmi_parse_read_profile_info_access_payload(a.payload, file_info)
              log(err) == Append(sent, Entry("FILE_INFO", 0, -1, err))
          IN
          IF a.at = "write" THEN Raise(rx.exc, sent)
          ELSE IF rx # NoResult THEN Raise(rx.exc, log(-1))
          ELSE IF p.result.exc # "" THEN Raise(p.result.exc, log(-1))
          ELSE
              /\ sent' = log(p.result.ret)
              /\ file_info' = p.out
              /\ IF p.result.ret # ERR_NONE
                 THEN /\ mpc' = "returned"
                      /\ mret' = ReturnOf(p.result.ret, 0)
                      /\ UNCHANGED pspec
                 ELSE IF p.out.ChannelsCount > 0
                 THEN /\ mpc' = "channels"
                      /\ UNCHANGED <<pspec, mret>>
                 ELSE /\ mpc' = "search_from"
                      /\ pspec' = SpecAfterChannels(pspec, p.out, pspec.ChannelsInfo)
                      /\ UNCHANGED mret
              /\ UNCHANGED <<call, first_err, loc, rrd, fields_all, cache, meter, progress>>
    /\ UNCHANGED notMediaVars

\* lines 393-429 (and 433-446 after the last channel): the descriptor
\* registers of channel ch
ChannelStep ==
    /\ mpc = "channels"
    /\ \E a \in ChannelAnswers :
          LET rx == Received(a)
              parsed == edmi_parse_read_registers_answer(a.payload, edmi_get_file_channel_regs)
              set == edmi_set_file_channel_info(parsed.regs)
              fe1 == FirstErr(first_err, parsed.result.ret)
              fe2 == FirstErr(fe1, set.ret)
              log(err) == Append(sent, Entry("CHANNEL_REGS", loc.ch, -1, err))
          IN
          IF a.at = "write" THEN Raise(rx.exc, sent)
          ELSE IF rx # NoResult THEN Raise(rx.exc, log(-1))
          ELSE IF parsed.result.exc # "" THEN Raise(parsed.result.exc, log(-1))
          ELSE IF set.exc # "" THEN Raise(set.exc, log(parsed.result.ret))
          ELSE
              /\ sent' = log(IF parsed.result.ret # ERR_NONE THEN parsed.result.ret
                             ELSE set.ret)
              /\ first_err' = fe2
              /\ loc' = [loc EXCEPT !.ch = @ + 1]
              /\ IF loc.ch + 1 < file_info.ChannelsCount
                 THEN UNCHANGED <<mpc, pspec>>
                 ELSE /\ mpc' = "search_from"
                      /\ pspec' = SpecAfterChannels(pspec, file_info, loc.ch + 1)
              /\ UNCHANGED <<call, file_info, rrd, fields_all, cache, mret, meter, progress>>
    /\ UNCHANGED notMediaVars

\* line 604: from_search = _search(from_dt)
SearchFromStep ==
    /\ mpc = "search_from"
    /\ \E a \in SearchAnswers(1) :
          LET rx == Received(a)
              p == edmi_parse_search_profile_payload(
                       a.payload, NewSearch(file_info.StartRecord, from_dt))
              log(err) == Append(sent, Entry("FILE_SEARCH", 0, -1, err))
          IN
          IF a.at = "write" THEN Raise(rx.exc, sent)
          ELSE IF rx # NoResult THEN Raise(rx.exc, log(-1))
          ELSE
              /\ sent' = log(p.result.ret)
              /\ first_err' = FirstErr(first_err, p.result.ret)
              /\ loc' = [loc EXCEPT !.from_start = p.out.StartRecord]
              /\ mpc' = "search_to"
              /\ UNCHANGED <<call, file_info, pspec, rrd, fields_all, cache, mret, meter, progress>>
    /\ UNCHANGED notMediaVars

\* record_count of lines 607-611
RecordCountUnclamped(from_start, to_start, max_records) ==
    IF to_start - from_start + 1 < 1 THEN 1 ELSE to_start - from_start + 1

RecordCountNoFloor(from_start, to_start, max_records) ==
    LET record_count == to_start - from_start + 1
    IN  IF max_records # -1 THEN Min(record_count, max_records) ELSE record_count

RecordCount(from_start, to_start, max_records) ==
    LET n == to_start - from_start + 1
        record_count == IF n < 1 THEN 1 ELSE n
    IN  IF max_records # -1 THEN Min(record_count, max_records) ELSE record_count

\* lines 605-613 and 497-526: to_search = _search(to_dt), the count, and
\* _read_records up to its loop (which is not entered with nothing to read)
SearchToStep ==
    /\ mpc = "search_to"
    /\ \E a \in SearchAnswers(MaxStart) \cup SearchAnswers(0) :
          LET rx == Received(a)
              p == edmi_parse_search_profile_payload(
                       a.payload, NewSearch(file_info.StartRecord, to_dt))
              log(err) == Append(sent, Entry("FILE_SEARCH", 1, -1, err))
              fe == FirstErr(first_err, p.result.ret)
              record_count == RecordCount(loc.from_start, p.out.StartRecord, call.max_records)
              cache_key == <<call.survey, file_info.RecordSize, pspec.ChannelsCount>>
              final == FinalReturn(fe, pspec, 0, ERR_NONE, loc.from_start, p.out.DateTime)
          IN
          IF a.at = "write" THEN Raise(rx.exc, sent)
          ELSE IF rx # NoResult THEN Raise(rx.exc, log(-1))
          ELSE
              /\ sent' = log(p.result.ret)
              /\ first_err' = fe
              /\ rrd' = [per_read_limit |-> PerReadLimit(call.survey, pspec.Interval,
                                                         CacheGet(cache, cache_key)),
                         remaining |-> record_count, next_start |-> loc.from_start,
                         records_read |-> 0, total |-> record_count,
                         cache_key |-> cache_key]
              /\ IF record_count > 0
                 THEN /\ mpc' = "read"
                      /\ UNCHANGED <<pspec, mret>>
                 ELSE /\ mpc' = "returned"
                      /\ mret' = final.ret
                      /\ pspec' = final.spec
              /\ loc' = [loc EXCEPT !.to_start = p.out.StartRecord,
                                   !.to_datetime = p.out.DateTime]
              /\ UNCHANGED <<call, file_info, fields_all, cache, meter, progress>>
    /\ UNCHANGED notMediaVars

\* lines 564-565 and 589-597: the error that ends the loop of _read_records
\* after a FILE_READ, NONE when the loop goes on
ReadErrorAllowsNoRecords(err, channels_count, records_returned) ==
    IF err # ERR_NONE THEN err
    ELSE IF channels_count <= 0 THEN ERR_REQUEST_WRONG_LENGTH
    ELSE ERR_NONE

ReadError(err, channels_count, records_returned) ==
    IF err # ERR_NONE THEN err
    ELSE IF channels_count <= 0 THEN ERR_REQUEST_WRONG_LENGTH
    ELSE IF records_returned <= 0 THEN ERR_RESPONSE_WRONG_LENGTH
    ELSE ERR_NONE

\* line 527: the count of the next FILE_READ
ChunkWholeRemainder(remaining, per_read_limit) == remaining

Chunk(remaining, per_read_limit) == Min(remaining, per_read_limit)

\* lines 564-565, 589-599: the returns on an error, and past them
\* "records_read += records_returned; progress_cb(records_read, total_records)"
ReportProgress_AlsoOnError(calls, err, records_read, total_records) ==
    Append(calls, <<records_read, total_records>>)

ReportProgress(calls, err, records_read, total_records) ==
    IF err # ERR_NONE THEN calls
    ELSE Append(calls, <<records_read, total_records>>)

\* lines 526-602 and 619-633: one pass of the loop of _read_records, one
\* FILE_READ, and the return of edmi_read_profile when the loop is left
ReadStep ==
    /\ mpc = "read"
    /\ LET chunk == Chunk(rrd.remaining, rrd.per_read_limit)
           log(r, err) == Append(sent, ReadEntry(rrd.next_start, chunk, r, err))
       IN
       \/ \E f \in {f \in Faults : FaultAt(f) = "write"} : Raise(f, sent)
       \/ \E a \in {a \in ReadAnswers : a.at # "write"} :
          LET rx == Received(a) IN
          IF rx # NoResult THEN Raise(rx.exc, log(-1, -1))
          ELSE \E res \in ReadResults(chunk, pspec) :
              LET spec1 == [pspec EXCEPT
                               !.RecordsCount = IF res.r = 0 /\ res.err # ERR_NONE THEN @
                                                ELSE res.r,
                               !.ChannelsCount = res.cc]
                  short == res.err = ERR_NONE /\ res.r > 0 /\ res.r < chunk
                  limit == IF short THEN Shrink(rrd.per_read_limit, res.r)
                           ELSE rrd.per_read_limit
                  fields == IF res.err = ERR_NONE THEN fields_all + res.nf ELSE fields_all
                  records_returned == IF res.cc > 0 THEN res.nf \div res.cc ELSE 0
                  err == ReadError(res.err, res.cc, records_returned)
                  remaining == rrd.remaining - records_returned
                  final == FinalReturn(first_err, spec1, fields, err,
                                       loc.from_start, loc.to_datetime)
                  after == IF err # ERR_NONE THEN [rrd EXCEPT !.per_read_limit = limit]
                           ELSE [rrd EXCEPT !.per_read_limit = limit,
                                            !.remaining = remaining,
                                            !.next_start = @ + records_returned,
                                            !.records_read = @ + records_returned]
              IN
              /\ sent' = log(res.r, res.err)
              /\ fields_all' = fields
              /\ cache' = IF short THEN CachePut(cache, rrd.cache_key, limit) ELSE cache
              /\ rrd' = after
              /\ progress' = ReportProgress(progress, err,
                                            rrd.records_read + records_returned, rrd.total)
              /\ meter' = [meter EXCEPT
                              !.exceeded = @ \/ chunk > meter.K,
                              !.obeys = @ /\ res.err = ERR_NONE /\ res.r = Min(chunk, meter.K)
                                          /\ res.cc = pspec.ChannelsCount
                                          /\ res.nf = res.r * res.cc]
              /\ IF err = ERR_NONE /\ remaining > 0
                 THEN /\ pspec' = spec1
                      /\ UNCHANGED <<mpc, mret>>
                 ELSE /\ pspec' = final.spec
                      /\ mpc' = "returned"
                      /\ mret' = final.ret
              /\ UNCHANGED <<call, first_err, file_info, loc>>
    /\ UNCHANGED notMediaVars

MediaNext ==
    \/ Call
    \/ LoginStep
    \/ InfoStep
    \/ FileInfoStep
    \/ ChannelStep
    \/ SearchFromStep
    \/ SearchToStep
    \/ ReadStep

(***************************************************************************)
(* The engine lock: caller threads of one Media instance                   *)
(***************************************************************************)

\* bounds of the threads
MaxThreads == 2       \* caller threads
MaxExchanges == 2     \* requests one operation writes

Threads == 1..MaxThreads
NoThread == 0

LockOps == {"edmi_login", "edmi_read_registers", "edmi_read_profile", "flush_input"}

\* how many requests an operation writes; which operations flush first
ExchangesOf(op) ==
    IF op = "flush_input" THEN {0}
    ELSE IF op = "edmi_login" THEN {1}
    ELSE 1..MaxExchanges

FlushesFirst(op) == op \in {"edmi_login", "flush_input"}

\* threading.Lock: "with self._lock" enters when nobody holds the lock
CanAcquireAlways(l) == TRUE

CanAcquire(l) == l = NoThread

\* "with self._lock" is left (how: "return", "error" for a typed error, or
\* the name of the exception): the lock is released on every path
LockAfterExit_ReturnOnly(holder, how) ==
    IF how \in {"return", "error"} THEN NoThread ELSE holder

LockAfterExit(holder, how) == NoThread

LockIdle ==
    /\ lock = NoThread
    /\ th = [t \in Threads |-> [pc |-> "idle", op |-> "", left |-> 0, flush |-> FALSE,
                                last |-> ""]]
    /\ ser = FALSE
    /\ io = NoThread

LockInit ==
    /\ lock = NoThread
    /\ th = [t \in Threads |-> [pc |-> "out", op |-> "", left |-> 0, flush |-> FALSE,
                                last |-> ""]]
    /\ ser \in BOOLEAN
    /\ io = NoThread

\* thread t leaves its operation
Exit(t, how) ==
    /\ lock' = LockAfterExit(lock, how)
    /\ th' = [th EXCEPT ![t] = [pc |-> "out", op |-> "", left |-> 0, flush |-> FALSE,
                                last |-> how]]
    /\ io' = IF io = t THEN NoThread ELSE io

\* _get_ready_serial raises SerialNotReadyError and the operation lets it
\* out; edmi_login returns GET_METER_ATTENTION_FAILED for it at the flush
ExitNotReady(t) == Exit(t, "SerialNotReadyError")

ExitNotReadyAtFlush(t) ==
    Exit(t, IF th[t].op = "edmi_login" THEN "error" ELSE "SerialNotReadyError")

\* a thread calls an operation of Media and comes to "with self._lock"
Enter(t) ==
    /\ th[t].pc = "out"
    /\ \E op \in LockOps : \E n \in ExchangesOf(op) :
          th' = [th EXCEPT ![t] = [pc |-> "waiting", op |-> op, left |-> n,
                                   flush |-> FlushesFirst(op), last |-> ""]]
    /\ UNCHANGED <<lock, ser, io>>
    /\ UNCHANGED notLockVars

Acquire(t) ==
    /\ th[t].pc = "waiting"
    /\ CanAcquire(lock)
    /\ lock' = t
    /\ th' = [th EXCEPT ![t].pc = "locked"]
    /\ UNCHANGED <<ser, io>>
    /\ UNCHANGED notLockVars

\* self.transport.flush_input() of edmi_login and flush_input; a serial error
\* inside it closes the port and is swallowed
Flush(t) ==
    /\ th[t].pc = "locked"
    /\ th[t].flush
    /\ IF ~ser THEN ExitNotReadyAtFlush(t) /\ UNCHANGED ser
       ELSE /\ ser' \in BOOLEAN
            /\ IF th[t].left = 0 THEN Exit(t, "return")
               ELSE /\ th' = [th EXCEPT ![t].flush = FALSE]
                    /\ UNCHANGED <<lock, io>>
    /\ UNCHANGED notLockVars

\* self.transport.write_packet(...)
Write(t) ==
    /\ th[t].pc = "locked"
    /\ ~th[t].flush
    /\ IF ~ser THEN ExitNotReady(t) /\ UNCHANGED ser
       ELSE \E f \in {"", "TimeoutError", "OSError"} :
               IF f = ""
               THEN /\ th' = [th EXCEPT ![t].pc = "written"]
                    /\ io' = t
                    /\ UNCHANGED <<lock, ser>>
               ELSE /\ ser' = FALSE
                    /\ Exit(t, f)
    /\ UNCHANGED notLockVars

\* self.transport.read_edmi_packet() and what follows it up to the next
\* write or the end of the operation
Read(t) ==
    /\ th[t].pc = "written"
    /\ IF ~ser THEN ExitNotReady(t) /\ UNCHANGED ser
       ELSE \E f \in {"", "error", "RuntimeError", "TimeoutError", "OSError"} :
               IF f = ""
               THEN /\ UNCHANGED ser
                    /\ IF th[t].left = 1 THEN Exit(t, "return")
                       ELSE /\ th' = [th EXCEPT ![t].pc = "locked", ![t].left = @ - 1]
                            /\ io' = NoThread
                            /\ UNCHANGED lock
               ELSE /\ ser' = IF f = "OSError" THEN FALSE ELSE ser
                    /\ Exit(t, IF f = "RuntimeError" /\ th[t].op = "edmi_login"
                               THEN "error" ELSE f)
    /\ UNCHANGED notLockVars

\* SerialTransport.close() by a thread that is in no operation (cancel), and
\* SerialTransport.connect()
Close(t) ==
    /\ th[t].pc = "out"
    /\ ser
    /\ ser' = FALSE
    /\ UNCHANGED <<lock, th, io>>
    /\ UNCHANGED notLockVars

Connect ==
    /\ ~ser
    /\ ser' = TRUE
    /\ UNCHANGED <<lock, th, io>>
    /\ UNCHANGED notLockVars

\* the steps of an operation that holds the lock
Running(t) == Flush(t) \/ Write(t) \/ Read(t)

LockNext ==
    \/ \E t \in Threads : Enter(t)
    \/ \E t \in Threads : Acquire(t)
    \/ \E t \in Threads : Flush(t)
    \/ \E t \in Threads : Write(t)
    \/ \E t \in Threads : Read(t)
    \/ \E t \in Threads : Close(t)
    \/ Connect

(***************************************************************************)
(* Properties of the profile download                                      *)
(***************************************************************************)

\* the FILE_READ lines of a log
Reads(log) == SelectSeq(log, LAMBDA e : e.kind = "FILE_READ")

\* the call has returned a value after both searches were sent
ReturnedPastSearches ==
    /\ mpc = "returned"
    /\ mret.kind = "return"
    /\ \E i \in 1..Len(sent) : sent[i].kind = "FILE_SEARCH" /\ sent[i].arg = 1

\* C11: an operation of Media lets only transport faults out as exceptions;
\* every protocol-level failure (CRC mismatch, login rejected, short or
\* malformed response) comes back as an error code.
Claim_C11_OnlyTransportFaultsRaise ==
    mret.kind = "raise" => mret.exc \in Faults

\* a FILE_READ answer with a wrong CRC has ended the download in RuntimeError
Wit_C11_CrcMismatchRaises ==
    /\ mret = RaiseOf("RuntimeError")
    /\ Len(sent) > 0
    /\ sent[Len(sent)].kind = "FILE_READ"
    /\ sent[Len(sent)].r = -1
    /\ sent[Len(sent)].err = -1

\* lines 299-613: which request may follow which (channels: the channels
\* FileInfo announced)
Follows(a, b, channels) ==
    \/ a.kind = "LOGIN" /\ b.kind = "INFO_REGS"
    \/ a.kind = "INFO_REGS" /\ b.kind = "FILE_INFO"
    \/ a.kind = "FILE_INFO" /\ b.kind = "CHANNEL_REGS" /\ b.arg = 0 /\ channels > 0
    \/ a.kind = "FILE_INFO" /\ b.kind = "FILE_SEARCH" /\ b.arg = 0 /\ channels = 0
    \/ a.kind = "CHANNEL_REGS" /\ b.kind = "CHANNEL_REGS" /\ b.arg = a.arg + 1
          /\ b.arg < channels
    \/ a.kind = "CHANNEL_REGS" /\ b.kind = "FILE_SEARCH" /\ b.arg = 0
          /\ a.arg = channels - 1
    \/ a.kind = "FILE_SEARCH" /\ a.arg = 0 /\ b.kind = "FILE_SEARCH" /\ b.arg = 1
    \/ a.kind = "FILE_SEARCH" /\ a.arg = 1 /\ b.kind = "FILE_READ"
    \/ a.kind = "FILE_READ" /\ b.kind = "FILE_READ"

\* the requests sent so far are a beginning of LOGIN (only with do_login),
\* info registers, FILE_INFO, the channels in ascending order, FILE_SEARCH
\* from, FILE_SEARCH to, FILE_READs
InOrder ==
    /\ Len(sent) > 0 => sent[1].kind = IF call.do_login THEN "LOGIN" ELSE "INFO_REGS"
    /\ \A i \in 1..(Len(sent) - 1) : Follows(sent[i], sent[i + 1], file_info.ChannelsCount)

Sent(kind) == Len(SelectSeq(sent, LAMBDA e : e.kind = kind))

\* a metadata step (info registers, FILE_INFO, a channel read) was answered
\* and its parser, or the setter behind it, gave an error code
MetadataFailed ==
    \E i \in 1..Len(sent) :
        /\ sent[i].kind \in {"INFO_REGS", "FILE_INFO", "CHANNEL_REGS"}
        /\ sent[i].err \notin {-1, ERR_NONE}

\* the call ended in a transport fault or in a CRC mismatch
EndedByFaultOrCrc ==
    mret.kind = "raise" /\ mret.exc \in Faults \cup {"RuntimeError"}

\* C15: a failure of a metadata step (info registers, FILE_INFO, channel
\* descriptors) does not end the download: it is kept as first_err, both
\* searches and the record reads are still sent, and the call returns
\* (ProfileSpec, fields, first_err).  (Calls with max_records = 0, and calls
\* that a transport fault or a CRC mismatch ended, are left aside.)
Claim_C15_MetadataNonFatal ==
    (mpc = "returned" /\ MetadataFailed /\ ~EndedByFaultOrCrc /\ call.max_records # 0) =>
        /\ mret.kind = "return"
        /\ mret.err = first_err
        /\ Sent("FILE_SEARCH") = 2
        /\ Sent("FILE_READ") >= 1

\* FILE_INFO was cancelled with ACCESS_DENIED and the call returned at once
Wit_C15_FileInfoErrorReturns ==
    /\ mpc = "returned"
    /\ mret = ReturnOf(ERR_ACCESS_DENIED, 0)
    /\ sent[Len(sent)] = Entry("FILE_INFO", 0, -1, ERR_ACCESS_DENIED)
    /\ Sent("FILE_SEARCH") = 0

\* a search or a record read was answered with an error
SearchOrReadFailed(i) ==
    /\ sent[i].kind \in {"FILE_SEARCH", "FILE_READ"}
    /\ sent[i].err \notin {-1, ERR_NONE}

\* C16: when FILE_SEARCH(from), FILE_SEARCH(to) or a FILE_READ fails, no
\* further request is sent and the call returns that error.
Claim_C16_SearchReadFatal ==
    \A i \in 1..Len(sent) :
        SearchOrReadFailed(i) =>
            /\ i = Len(sent)
            /\ mpc = "returned" => mret.kind = "return" /\ mret.err = sent[i].err

\* FILE_SEARCH(from) was cancelled, and FILE_SEARCH(to) and a FILE_READ
\* were sent after it
Wit_C16_SearchErrorGoesOn ==
    /\ Sent("FILE_READ") >= 1
    /\ \E i \in 1..Len(sent) : sent[i] = Entry("FILE_SEARCH", 0, -1, ERR_ACCESS_DENIED)

\* C17: once a FILE_READ has delivered records, a later chunk that is
\* answered with a protocol error, fails its CRC or meets a transport fault
\* still leaves the caller with the fields read so far, next to the error.
Claim_C17_PartialKept ==
    (mpc = "returned" /\ fields_all > 0) =>
        /\ mret.kind = "return"
        /\ mret.fields = fields_all

\* the second FILE_READ failed its CRC after the first gave records: the
\* call raised
Wit_C17_PartialLostOnCrc ==
    /\ mret = RaiseOf("RuntimeError")
    /\ fields_all > 0
    /\ Sent("FILE_READ") = 2
    /\ sent[Len(sent)].kind = "FILE_READ"

\* a FILE_READ answered with fewer records than asked for, and more than none
Short(e) == e.kind = "FILE_READ" /\ e.err = ERR_NONE /\ 0 < e.r /\ e.r < e.arg

\* C18: within one call, once a FILE_READ is answered with r records,
\* 0 < r < the count asked for, the per-read limit becomes min(L, r), every
\* later FILE_READ of the call asks for at most r records, and the cache
\* holds the new limit under (survey, record_size, channels_count).
Thm_C18_AdaptiveShrink ==
    \A i \in 1..Len(sent) :
        Short(sent[i]) =>
            /\ \A j \in (i + 1)..Len(sent) :
                  sent[j].kind = "FILE_READ" => sent[j].arg <= sent[i].r
            /\ rrd.per_read_limit <= sent[i].r
            /\ (\A j \in (i + 1)..Len(sent) : ~Short(sent[j])) =>
                  /\ rrd.per_read_limit = sent[i].r
                  /\ CacheGet(cache, rrd.cache_key) = sent[i].r

\* a FILE_READ for 3 records was answered with 2, the limit 2 is cached and
\* a further FILE_READ was sent
Wit_C18_ShrunkAndCached ==
    \E i \in 1..Len(sent) : \E j \in (i + 1)..Len(sent) :
        /\ Short(sent[i])
        /\ sent[i].arg = 3 /\ sent[i].r = 2
        /\ sent[j].kind = "FILE_READ"
        /\ cache = CachePut(meter.cache0, <<call.survey, 4, 2>>, 2)

\* the first FILE_READ of the call under way
FirstRead == Reads(sent)[1]

\* the limit the cache held for this call's key when the call began
CachedAtEntry == CacheGet(meter.cache0, rrd.cache_key)

\* what a call hands to the next: a behaving meter (at most K records per
\* FILE_READ, all of them whole) that was asked for more than K at least
\* once has left key -> K in the cache ...
LearnedK ==
    (meter.obeys /\ meter.exceeded) => CacheGet(cache, rrd.cache_key) = meter.K

\* ... and a call that finds a limit under its key asks for no more than
\* that in its first FILE_READ
FirstReadWithinCached ==
    (Len(Reads(sent)) > 0 /\ CachedAtEntry > 0) => FirstRead.arg <= CachedAtEntry

\* C19 (as the code has it): after a call against a meter that gives at most
\* K records per FILE_READ, in which some FILE_READ asked for more than K,
\* the cache holds (survey, record_size, channels) -> K; the next call with
\* the same key sends its first FILE_READ with count <= K.
Thm_C19_LimitAcrossCalls ==
    /\ LearnedK
    /\ FirstReadWithinCached

\* second call: the cache held K = 2 under the key, learned by the first
\* call (the caches of the initial states hold 3), and the first FILE_READ
\* asked for 2
Wit_C19_SecondCallStartsAtK ==
    /\ meter.calls = 2
    /\ meter.K = 2
    /\ Len(Reads(sent)) > 0
    /\ CachedAtEntry = 2
    /\ FirstRead.arg = 2

\* C19 as stated: after any call against a meter that gives at most K
\* records per FILE_READ the cache holds key -> K.
Claim_C19_AlwaysLearned ==
    /\ (mpc = "returned" /\ mret.kind = "return" /\ mret.err = ERR_NONE
        /\ Len(Reads(sent)) > 0 /\ meter.obeys)
          => CacheGet(cache, rrd.cache_key) = meter.K
    /\ FirstReadWithinCached

\* the call has returned REGISTER_NOT_FOUND from the set-up of FileInfo: for
\* an info register, or from the FILE_INFO response
NotFoundInSetup ==
    /\ mpc = "returned"
    /\ mret = ReturnOf(ERR_REGISTER_NOT_FOUND, 0)
    /\ sent[Len(sent)].kind \in {"INFO_REGS", "FILE_INFO"}

\* C20: when REGISTER_NOT_FOUND comes back while FileInfo is set up for
\* survey s, for an info register or from the FILE_INFO response, every
\* cached limit of survey s is removed and the limits of other surveys stay.
Claim_C20_Invalidation ==
    NotFoundInSetup => cache = Invalidate(meter.cache0, call.survey)

\* FILE_INFO was answered CAN + REGISTER_NOT_FOUND and the survey's limit is
\* still cached
Wit_C20_FileInfoKeepsLimit ==
    /\ NotFoundInSetup
    /\ sent[Len(sent)].kind = "FILE_INFO"
    /\ <<call.survey, 4, 2>> \in DOMAIN cache

(***************************************************************************)
(* Properties of the engine lock                                           *)
(***************************************************************************)

\* thread t is inside "with self._lock"
Inside(t) == th[t].pc \in {"locked", "written"}

MaxOps == 5

NoCall == [n |-> 0, name |-> "", fault |-> "", how |-> ""]

TransportIdle ==
    /\ _ser = "None"
    /\ port_io = 0
    /\ tcall = NoCall

\* __init__: self._ser = None
TransportInit == TransportIdle

\* is_ready()
is_ready_Always(s) == TRUE

is_ready(s) == s = "open"

\* what pyserial may do in a call: nothing wrong, the write timeout, an I/O
\* error, or (in a read) no byte within the timeout
WriteFaults == {"", "SerialTimeoutException", "SerialException"}
ReadFaults == {"", "SerialException", "no byte"}
FlushFaults == {"", "SerialException"}

\* the except clauses of read_edmi_packet: does the fault close the port
ClosesOnRead_Timeout(fault) == fault # ""

ClosesOnRead(fault) == fault = "SerialException"

\* the call n + 1 with what it did and gave back
Called(name, fault, how) ==
    tcall' = [n |-> tcall.n + 1, name |-> name, fault |-> fault, how |-> how]

\* _get_ready_serial raises: no call on the port, self._ser as it is
NotReady(name) ==
    /\ Called(name, "", "SerialNotReadyError")
    /\ UNCHANGED <<_ser, port_io>>

\* connect(): nothing when the port is open, else serial.Serial(...), which
\* opens the port or raises and leaves self._ser as it was
connect ==
    /\ tcall.n < MaxOps
    /\ IF is_ready(_ser)
       THEN Called("connect", "", "return") /\ UNCHANGED _ser
       ELSE \/ Called("connect", "", "return") /\ _ser' = "open"
            \/ Called("connect", "SerialException", "SerialException") /\ UNCHANGED _ser
    /\ UNCHANGED port_io
    /\ UNCHANGED notTransportVars

\* close(): self._ser = None, and ser.close() when there was a port (what it
\* raises is swallowed)
close ==
    /\ tcall.n < MaxOps
    /\ _ser' = "None"
    /\ port_io' = IF _ser = "None" THEN port_io ELSE port_io + 1
    /\ \E fault \in {"", "SerialException"} :
          /\ fault # "" => _ser # "None"
          /\ Called("close", fault, "return")
    /\ UNCHANGED notTransportVars

\* write_packet(payload), the payload within MAX_PACKET_LENGTH
write_packet ==
    /\ tcall.n < MaxOps
    /\ IF ~is_ready(_ser) THEN NotReady("write_packet")
       ELSE \E fault \in WriteFaults :
               IF fault = ""
               THEN /\ Called("write_packet", fault, "return")
                    /\ port_io' = port_io + 1
                    /\ UNCHANGED _ser
               ELSE /\ Called("write_packet", fault,
                              IF fault = "SerialTimeoutException"
                              THEN "TimeoutError" ELSE "OSError")
                    /\ port_io' = port_io + 2          \* ser.write, ser.close
                    /\ _ser' = "None"
    /\ UNCHANGED notTransportVars

\* read_edmi_packet()
read_edmi_packet ==
    /\ tcall.n < MaxOps
    /\ IF ~is_ready(_ser) THEN NotReady("read_edmi_packet")
       ELSE \E fault \in ReadFaults :
               /\ Called("read_edmi_packet", fault,
                         IF fault = "" THEN "return"
                         ELSE IF fault = "no byte" THEN "TimeoutError" ELSE "OSError")
               /\ IF ClosesOnRead(fault)
                  THEN _ser' = "None" /\ port_io' = port_io + 2     \* ser.read, ser.close
                  ELSE UNCHANGED _ser /\ port_io' = port_io + 1
    /\ UNCHANGED notTransportVars

\* flush_input(): an error of reset_input_buffer closes the port and is not
\* passed on
flush_input ==
    /\ tcall.n < MaxOps
    /\ IF ~is_ready(_ser) THEN NotReady("flush_input")
       ELSE \E fault \in FlushFaults :
               /\ Called("flush_input", fault, "return")
               /\ IF fault = ""
                  THEN UNCHANGED _ser /\ port_io' = port_io + 1
                  ELSE _ser' = "None" /\ port_io' = port_io + 2
    /\ UNCHANGED notTransportVars

TransportNext ==
    \/ connect
    \/ close
    \/ write_packet
    \/ read_edmi_packet
    \/ flush_input

(***************************************************************************)
(* Properties of the transport's error states                              *)
(***************************************************************************)

\* the three methods that do I/O
IoMethods == {"write_packet", "read_edmi_packet", "flush_input"}

CachedLimitsPositive == \A key \in DOMAIN cache : cache[key] >= 1

\* C37: every value in the per-read limit cache is an integer >= 1, and no
\* step of a call raises the value stored under a key: a key that is in the
\* cache before and after a step has a value no higher than before (a key
\* removed by invalidation is in no cache until it is written again).
Thm_C37_CacheValues ==
    /\ []CachedLimitsPositive
    /\ [][\A key \in DOMAIN cache \cap DOMAIN cache' : cache'[key] <= cache[key]]_vars

\* a call has lowered the limit an earlier call had left under a key
Wit_C37_LimitLowered ==
    \E key \in DOMAIN cache \cap DOMAIN meter.cache0 :
        /\ cache[key] < meter.cache0[key]
        /\ cache[key] >= 1
        /\ Len(sent) > 0 /\ sent[Len(sent)].kind = "FILE_READ"

(***************************************************************************)
(* Properties of the value decoders                                        *)
(***************************************************************************)

\* the type codes of the model that the value codec has a decoder for
TypedValues ==
    StringTypes \cup {EDMI_TYPE_BYTE, EDMI_TYPE_FLOAT, EDMI_TYPE_SHORT, EDMI_TYPE_LONG}

\* the register parser has read NONE as the error byte of register k
ValueFollows(k) == regs[k].ErrorCode = ERR_NONE

\* the profile parser has left its loops inside a record, at a channel
ChannelRefused ==
    /\ req.op = "file_read"
    /\ ppc = "done"
    /\ rd.ch < rd.n

\* C31: a value whose declared type is none of the typed values is not
\* decoded: the register parser, once it has read NONE as the error byte of
\* such a register, leaves the register without value and returns
\* UNIMPLEMENTED_DATA_TYPE (or the length error, when the value bytes are
\* not there), and the profile parser that comes to a channel of such a type
\* returns UNIMPLEMENTED_DATA_TYPE and no field.
Claim_C31_UnknownType ==
    /\ \A k \in 1..Len(regs) :
          (regs[k].Type \notin TypedValues /\ ValueFollows(k)) =>
              /\ ~regs[k].Value.present
              /\ ppc = "done"
              /\ result \in {Returned(ERR_UNIMPLEMENTED_DATA_TYPE),
                             Returned(ERR_REQUEST_WRONG_LENGTH)}
    /\ (ChannelRefused /\ rd.types[rd.ch + 1] \notin TypedValues) =>
          /\ result = Returned(ERR_UNIMPLEMENTED_DATA_TYPE)
          /\ out.fields = <<>>

\* a WAVEFORM register came back with a number and NONE
Wit_C31_UnknownTypeDecoded ==
    /\ ppc = "done"
    /\ result = Returned(ERR_NONE)
    /\ regs = <<Register(EDMI_TYPE_WAVEFORM, 4, ERR_NONE, NumValue(1090519295))>>

\* the input ends in a DLE that opens an escape: the byte before it is no DLE
\* (a DLE before it would have taken it as its escaped byte)
EndsInOpenEscape(p) ==
    /\ Len(p) >= 2
    /\ p[Len(p)] = EDMI_DLE_IDEN
    /\ p[Len(p) - 1] # EDMI_DLE_IDEN

\* how the call of edmi_pre_process ended: bytes came back (no code), or
\* ValueError was raised
PreProcessEnded ==
    IF rxbuf = ValueErrorV THEN Raised("ValueError") ELSE NoResult

\* C32: unstuffing an input whose last byte is a DLE with no byte behind it
\* ends in the typed result RESPONSE_WRONG_LENGTH.
Claim_C32_TruncatedEscape ==
    (cpc = "unstuffed" /\ EndsInOpenEscape(packet))
        => PreProcessEnded = Returned(ERR_RESPONSE_WRONG_LENGTH)

\* STX, 'E', DLE was unstuffed and ValueError came out
Wit_C32_ValueErrorRaised ==
    /\ cpc = "unstuffed"
    /\ packet = <<EDMI_STX_IDEN, EDMI_E_FRAME_IDEN, EDMI_DLE_IDEN>>
    /\ PreProcessEnded = Raised("ValueError")

(***************************************************************************)
(* Properties of the parsers' checks on the head of a response             *)
(***************************************************************************)

\* the extension a FILE_ACCESS operation asked for
ExtensionOf(op) ==
    IF op = "file_info" THEN EXT_FILE_INFO
    ELSE IF op = "file_search" THEN EXT_FILE_SEARCH
    ELSE EXT_FILE_READ

\* the sentinel 0x0000FFF1 as it stands in a response
SentinelBytes == <<0, 0, 255, 241>>

\* the parser of the operation has run on a response with a response byte
HeadParsed == Parsed /\ Len(resp) >= 16

\* nothing of the response was decoded into the caller's structures
NothingDecoded ==
    /\ regs \in RegisterLists
    /\ out = FileStruct(out.ChannelsCount)

\* C33: each response parser checks the byte at offset 12 first: when it is
\* neither the command asked ('M', 'F') nor CAN the parser returns
\* REQUEST_RESPONSE_COMMAND_MISMATCH whatever follows; then a FILE_ACCESS
\* parser returns it when the byte at offset 13 is not the extension asked,
\* and the register parser when bytes 13..16 are not the sentinel 0x0000FFF1;
\* in each case nothing of the response has been decoded.
Thm_C33_HeadChecksInOrder ==
    /\ (/\ HeadParsed
        /\ req.op \in {"read_registers", "file_info", "file_search", "file_read"}
        /\ At(resp, 12) \notin {CommandOf(req.op), CAN})
       => result = Returned(ERR_REQUEST_RESPONSE_COMMAND_MISMATCH) /\ NothingDecoded
    /\ (/\ HeadParsed
        /\ req.op \in {"file_info", "file_search", "file_read"}
        /\ At(resp, 12) = CMD_FILE_ACCESS
        /\ At(resp, 13) # ExtensionOf(req.op))
       => result = Returned(ERR_REQUEST_RESPONSE_COMMAND_MISMATCH) /\ NothingDecoded
    /\ (/\ HeadParsed
        /\ req.op = "read_registers"
        /\ At(resp, 12) = CMD_READ_REGISTER_EXTENDED
        /\ Slice(resp, 13, 17) # SentinelBytes)
       => result = Returned(ERR_REQUEST_RESPONSE_COMMAND_MISMATCH) /\ NothingDecoded

\* a FILE_SEARCH was answered by a whole FILE_READ head and refused
Wit_C33_WrongExtensionRefused ==
    /\ HeadParsed
    /\ req.op = "file_search"
    /\ Slice(resp, 12, 22) = FileHead(EXT_FILE_READ)
    /\ Len(resp) = 28
    /\ result = Returned(ERR_REQUEST_RESPONSE_COMMAND_MISMATCH)
    /\ NothingDecoded

\* the FILE_ACCESS parsers
FileOps == {"file_info", "file_search", "file_read"}

\* C34: a response whose byte at offset 12 is CAN is never a success: whatever
\* byte follows, the FILE_INFO, FILE_SEARCH and FILE_READ parsers return a
\* code other than NONE.
Claim_C34_CanNeverSucceeds ==
    (HeadParsed /\ req.op \in FileOps /\ At(resp, 12) = CAN)
        => result # Returned(ERR_NONE)

\* CAN followed by 0x00 answered a FILE_SEARCH: the parser returned NONE and
\* wrote nothing to the search structure
Wit_C34_CanZeroIsNone ==
    /\ HeadParsed
    /\ req.op = "file_search"
    /\ Slice(resp, 12, 14) = <<CAN, 0>>
    /\ Len(resp) = 17
    /\ result = Returned(ERR_NONE)
    /\ out = FileStruct(0)

\* the structures as the caller passed them to the FILE_ACCESS parser: all
\* fresh, ChannelsCount the number of channels of the profile
PassedIn ==
    IF rd = NoRead THEN FileStruct(out.ChannelsCount) ELSE FileStruct(Len(rd.types))

\* C35: whenever the FILE_INFO, FILE_SEARCH or FILE_READ parser returns a code
\* other than NONE, the structures passed to it (FileInfo, SearchFile,
\* ReadFile, and ProfileSpec's RecordsCount and ChannelsCount) are as they
\* were before the call.
Claim_C35_AtomicOnError ==
    (/\ HeadParsed
     /\ req.op \in FileOps
     /\ result.exc = ""
     /\ result # Returned(ERR_NONE))
    => out = PassedIn

\* a FILE_READ answer for a WAVEFORM channel: the parser returned
\* UNIMPLEMENTED_DATA_TYPE after it had written the header's record count of
\* 2 into ReadFile and ProfileSpec
Wit_C35_HeaderKeptOnError ==
    /\ HeadParsed
    /\ req.op = "file_read"
    /\ rd.types = <<EDMI_TYPE_WAVEFORM>>
    /\ result = Returned(ERR_UNIMPLEMENTED_DATA_TYPE)
    /\ PassedIn.RecordsCount = 0 /\ PassedIn.SpecRecordsCount = 0
    /\ out.RecordsCount = 2 /\ out.SpecRecordsCount = 2
    /\ out.StartRecord = 1

(***************************************************************************)
(* SerialTransport._read_edmi_packet_sync: the framed read                 *)
(***************************************************************************)
\* bounds of the framed read
MaxLine == 5        \* longest line of bytes that is not one of the codec's frames

\* bytes of such a line: STX, ETX, DLE and a plain byte
LineBytes == {EDMI_STX_IDEN, EDMI_ETX_IDEN, EDMI_DLE_IDEN, EDMI_E_FRAME_IDEN}

\* wake_up_seq(): "/?!\r\n"
wake_up_seq == <<47, 63, 33, 13, 10>>

\* what may stand on the line before a frame: nothing, the wake-up sequence,
\* bytes left over from an earlier frame
Leads == {<<>>, wake_up_seq, <<EDMI_DLE_IDEN, EDMI_ETX_IDEN>>}

\* the frames edmi_end_init_packet makes of the buffers the driver builds
Frames == {edmi_end_init_packet(p) : p \in CodecPackets} \ {ValueErrorV}

\* bytes.find(bytes((b,))): 0-based position of the first b, -1 when none
FindByteNever(chunk, b) == -1

RECURSIVE FindByte(_, _)
FindByte(chunk, b) ==
    IF chunk = <<>> THEN -1
    ELSE IF Head(chunk) = b THEN 0
    ELSE LET r == FindByte(Tail(chunk), b) IN IF r < 0 THEN -1 ELSE r + 1

\* "for i in range(1, len(buf))": the first i (0-based) with buf[i] == ETX and
\* buf[i - 1] != DLE, from i on; -1 when the loop ends without a return
RECURSIVE ScanFrom(_, _)
ScanFrom(b, i) ==
    IF i >= Len(b) THEN -1
    ELSE IF At(b, i) = EDMI_ETX_IDEN /\ At(b, i - 1) # EDMI_DLE_IDEN THEN i
    ELSE ScanFrom(b, i + 1)

ScanTerminatorAnyEtx(b) == FindByte(b, EDMI_ETX_IDEN)

ScanTerminator(b) == ScanFrom(b, 1)

NoPacket == [kind |-> "none", packet |-> <<>>, exc |-> ""]
PacketOf(p) == [kind |-> "return", packet |-> p, exc |-> ""]
ReadRaises(e) == [kind |-> "raise", packet |-> <<>>, exc |-> e]

ReadIdle ==
    /\ rpc = "idle"
    /\ line = [lead |-> <<>>, frame |-> <<>>]
    /\ stream = <<>>
    /\ buf = <<>>
    /\ in_frame = FALSE
    /\ rret = NoPacket

\* lines 161-163: buf = bytearray(), in_frame = False, before the first read;
\* the far end sends any short line of bytes, or a lead and one frame
ReadInit ==
    /\ rpc = "reading"
    /\ \/ \E l \in SeqsUpTo(LineBytes, MaxLine) : line = [lead |-> l, frame |-> <<>>]
       \/ \E l \in Leads, f \in Frames : line = [lead |-> l, frame |-> f]
    /\ stream = line.lead \o line.frame
    /\ buf = <<>>
    /\ in_frame = FALSE
    /\ rret = NoPacket

\* lines 165-183: one pass of "while True" in which ser.read gives a chunk of
\* k bytes (in_waiting bytes, or 1)
ReadPass ==
    /\ rpc = "reading"
    /\ \E k \in 1..Len(stream) :
          LET chunk == SubSeq(stream, 1, k)
              pos == FindByte(chunk, EDMI_STX_IDEN)
              skipped == ~in_frame /\ pos < 0
              buf1 == IF in_frame THEN buf \o chunk
                      ELSE IF pos < 0 THEN buf
                      ELSE SubSeq(chunk, pos + 1, k)
              i == ScanTerminator(buf1)
          IN
          /\ stream' = SubSeq(stream, k + 1, Len(stream))
          /\ buf' = buf1
          /\ in_frame' = ~skipped
          /\ IF ~skipped /\ i >= 0
             THEN rpc' = "returned" /\ rret' = PacketOf(SubSeq(buf1, 1, i + 1))
             ELSE UNCHANGED <<rpc, rret>>
    /\ UNCHANGED line
    /\ UNCHANGED notReadVars

\* lines 167-169: nothing arrives within the timeout, ser.read gives b""
ReadTimeout ==
    /\ rpc = "reading"
    /\ stream = <<>>
    /\ rpc' = "returned"
    /\ rret' = ReadRaises("TimeoutError")
    /\ UNCHANGED <<line, stream, buf, in_frame>>
    /\ UNCHANGED notReadVars

\* line 166: ser.read raises (the port fails); read_edmi_packet turns it into
\* OSError (lines 112-114)
ReadFails ==
    /\ rpc = "reading"
    /\ rpc' = "returned"
    /\ rret' = ReadRaises("OSError")
    /\ UNCHANGED <<line, stream, buf, in_frame>>
    /\ UNCHANGED notReadVars

ReadNext ==
    \/ ReadPass
    \/ ReadTimeout
    \/ ReadFails

(***************************************************************************)
(* Properties of the framed read                                           *)
(***************************************************************************)

\* all the bytes of the line
WholeLine == line.lead \o line.frame

\* 1-based position of the first STX of the line, 0 when it has none
FirstStx ==
    IF \E i \in 1..Len(WholeLine) : WholeLine[i] = EDMI_STX_IDEN
    THEN CHOOSE i \in 1..Len(WholeLine) :
             /\ WholeLine[i] = EDMI_STX_IDEN
             /\ \A j \in 1..(i - 1) : WholeLine[j] # EDMI_STX_IDEN
    ELSE 0

\* the positions behind the first STX of an ETX that no DLE stands before
Terminators ==
    IF FirstStx = 0 THEN {}
    ELSE {e \in (FirstStx + 1)..Len(WholeLine) :
             WholeLine[e] = EDMI_ETX_IDEN /\ WholeLine[e - 1] # EDMI_DLE_IDEN}

FirstTerminator == CHOOSE e \in Terminators : \A x \in Terminators : e <= x

\* C23: whatever the chunks, the framed read gives back the bytes from the
\* first STX of the line to the first ETX behind it that no DLE stands
\* before, both included, and nothing of what came before that STX; an ETX
\* behind a DLE ends nothing; and when the line runs dry with no such ETX the
\* read ends in the read timeout.
Thm_C23_FramedReadBoundary ==
    /\ (rpc = "returned" /\ rret.kind = "return") =>
          /\ Terminators # {}
          /\ rret.packet = SubSeq(WholeLine, FirstStx, FirstTerminator)
    /\ (rpc = "returned" /\ rret.exc = "TimeoutError") =>
          /\ Terminators = {}
          /\ stream = <<>>
    /\ (rpc = "reading" /\ Terminators = {} /\ stream = <<>>) => ENABLED ReadTimeout

\* bytes before the STX were dropped, an ETX behind a DLE was passed over, and
\* the packet ends at the next ETX
Wit_C23_EscapedEtxPassedOver ==
    /\ rpc = "returned"
    /\ WholeLine = <<EDMI_E_FRAME_IDEN, EDMI_STX_IDEN, EDMI_DLE_IDEN, EDMI_ETX_IDEN>>
                       \o <<EDMI_ETX_IDEN>>
    /\ rret = PacketOf(<<EDMI_STX_IDEN, EDMI_DLE_IDEN, EDMI_ETX_IDEN, EDMI_ETX_IDEN>>)

\* C29: a frame made by edmi_end_init_packet, alone on the line or behind
\* bytes without STX such as the wake-up sequence, comes back from the framed
\* read exactly as it was made, however the line is cut into chunks: no
\* shorter, no longer, and no timeout.
Thm_C29_CodecTransportAgree ==
    (rpc = "returned" /\ line.frame # <<>> /\ rret.exc # "OSError")
        => rret = PacketOf(line.frame)

\* a frame with an escaped byte in it came back whole from behind the wake-up
\* sequence, the line read to its end
Wit_C29_FrameBehindWakeUp ==
    /\ rpc = "returned"
    /\ line.lead = wake_up_seq
    /\ \E i \in 1..Len(line.frame) : line.frame[i] = EDMI_DLE_IDEN
    /\ rret = PacketOf(line.frame)
    /\ stream = <<>>
    /\ Len(buf) = Len(line.frame)

(***************************************************************************)
(* Properties of the chunked reading of records                            *)
(***************************************************************************)

\* the FILE_READ requests of the log, in order
ReadLog == SelectSeq(sent, LAMBDA e : e.kind = "FILE_READ")

RECURSIVE SumCounts(_)
SumCounts(log) == IF log = <<>> THEN 0 ELSE log[1].arg + SumCounts(Tail(log))

\* the step writes a FILE_READ request
WritesRead ==
    /\ Len(sent') = Len(sent) + 1
    /\ sent'[Len(sent')].kind = "FILE_READ"

\* the call has returned from line 633 or 625: _read_records left its loop
\* with nothing remaining
AllChunksRead == mpc = "returned" /\ mret.kind = "return" /\ rrd.remaining <= 0

\* every FILE_READ of the call got all the records it asked for
EveryRecordReturned ==
    \A i \in 1..Len(ReadLog) : ReadLog[i].err = ERR_NONE /\ ReadLog[i].r = ReadLog[i].arg

\* C21: every FILE_READ asks for min(total - records read so far, L) records,
\* at least 1 and at most L of them, beginning at record from_search.StartRecord
\* + records read so far; and when the meter gives every record asked for, the
\* counts of the FILE_READs add up to the total, which is the final
\* RecordsCount.
Claim_C21_ChunkSequence ==
    /\ [][WritesRead =>
            LET request == sent'[Len(sent')] IN
            /\ request.arg = Min(rrd.total - rrd.records_read, rrd.per_read_limit)
            /\ 1 <= request.arg /\ request.arg <= rrd.per_read_limit
            /\ request.start = loc.from_start + rrd.records_read]_vars
    /\ []((AllChunksRead /\ EveryRecordReturned /\ pspec.ChannelsCount > 0)
            => /\ SumCounts(ReadLog) = rrd.total
               /\ pspec.RecordsCount = rrd.total)

\* a window of MaxStart records with L = 59 was read by one FILE_READ asking
\* for all of them, and RecordsCount is their number
Wit_C21_OneReadForTheWindow ==
    /\ AllChunksRead
    /\ rrd.per_read_limit = 59
    /\ rrd.total = MaxStart
    /\ Len(ReadLog) = 1
    /\ ReadLog[1].arg = MaxStart /\ ReadLog[1].start = 1 /\ ReadLog[1].r = MaxStart
    /\ pspec.RecordsCount = MaxStart

\* the FILE_SEARCH of the log for the window's start (which = 0) or its end
\* (which = 1) was answered and parsed
SearchParsed(which) ==
    \E i \in 1..Len(sent) : sent[i] = Entry("FILE_SEARCH", which, -1, ERR_NONE)

\* "profile_spec.ChannelsCount or len(profile_spec.ChannelsInfo)"
FinalChannelsCount ==
    IF pspec.ChannelsCount # 0 THEN pspec.ChannelsCount ELSE pspec.ChannelsInfo

\* C22: when edmi_read_profile returns after the loop of FILE_READs ended
\* without a read error, profile_spec.RecordsCount is the number of fields
\* returned divided by channels_count, StartRecord is the record FILE_SEARCH(from)
\* answered, FromDateTime is the from datetime asked for and ToDateTime is the
\* datetime of the FILE_SEARCH(to) response.
Thm_C22_FinalProfileSpec ==
    (AllChunksRead /\ FinalChannelsCount > 0) =>
        /\ pspec.RecordsCount = mret.fields \div FinalChannelsCount
        /\ pspec.StartRecord = loc.from_start
        /\ SearchParsed(0) => pspec.StartRecord = 1
        /\ pspec.FromDateTime = from_dt
        /\ pspec.ToDateTime = loc.to_datetime
        /\ SearchParsed(1) =>
               pspec.ToDateTime = DateTime(26, 1, 18, loc.to_start, 0, 0, FALSE)

\* a download of the whole window has returned: two fields per record, the
\* start and the end datetime as the meter answered them
Wit_C22_FinalProfileSpec ==
    /\ AllChunksRead
    /\ mret.err = ERR_NONE
    /\ SearchParsed(0) /\ SearchParsed(1)
    /\ pspec.ChannelsCount = 2
    /\ mret.fields = 2 * MaxStart
    /\ pspec.RecordsCount = MaxStart
    /\ pspec.StartRecord = 1
    /\ pspec.ToDateTime # to_dt

\* the step is a FILE_READ whose answer parsed without error, but gave no
\* whole record for a profile with channels
NoRecordRead ==
    /\ WritesRead
    /\ sent'[Len(sent')].err = ERR_NONE
    /\ pspec'.ChannelsCount > 0
    /\ fields_all' \div pspec'.ChannelsCount = fields_all \div pspec'.ChannelsCount

Claim_C28_RecordBudget ==
    /\ rrd.records_read <= rrd.total
    /\ call.max_records # -1 => rrd.total <= call.max_records

\* asked for at most MaxRecords records, the download has taken more from an
\* answer that declared more than the request's count
Wit_C28_MoreThanTotal ==
    /\ AllChunksRead
    /\ call.max_records = MaxRecords
    /\ Len(ReadLog) = 1
    /\ ReadLog[1].r > ReadLog[1].arg
    /\ rrd.records_read > MaxRecords
    /\ mret.err = ERR_NONE

(***************************************************************************)
(* Properties of the record count and of the first FILE_READ               *)
(***************************************************************************)

\* the call is past both FILE_SEARCH exchanges: the second was answered by a
\* frame that the parser was given
PastSearches ==
    /\ mpc \in {"read", "returned"}
    /\ \E i \in 1..Len(sent) :
          sent[i].kind = "FILE_SEARCH" /\ sent[i].arg = 1 /\ sent[i].err # -1

\* max(1, to_record - from_record + 1)
WindowRecords ==
    IF loc.to_start - loc.from_start + 1 >= 1
    THEN loc.to_start - loc.from_start + 1 ELSE 1

\* C38: the number of records edmi_read_profile sets out to read is
\* max(1, to_record - from_record + 1), from_record and to_record being the
\* record numbers the two FILE_SEARCH answers gave, lowered to max_records
\* when the caller supplied a smaller one; the first FILE_READ starts at
\* from_record, and there is none when that number is not positive.
Thm_C38_RecordCount ==
    PastSearches =>
        /\ SearchParsed(0) => loc.from_start = 1
        /\ SearchParsed(1) => loc.to_start \in {0, MaxStart}
        /\ rrd.total = IF call.max_records # -1 /\ call.max_records < WindowRecords
                       THEN call.max_records ELSE WindowRecords
        /\ Reads(sent) # <<>> =>
              /\ FirstRead.start = loc.from_start
              /\ FirstRead.arg <= rrd.total
              /\ rrd.total >= 1
        /\ (mpc = "read" /\ Reads(sent) = <<>>) => rrd.remaining = rrd.total

\* the end of the window was answered with a record before its start: one
\* record is read, from the start
Wit_C38_FloorOfOne ==
    /\ PastSearches
    /\ SearchParsed(0) /\ SearchParsed(1)
    /\ loc.from_start = 1 /\ loc.to_start = 0
    /\ call.max_records = -1
    /\ rrd.total = 1
    /\ Len(Reads(sent)) = 1
    /\ FirstRead.start = 1 /\ FirstRead.arg = 1

(***************************************************************************)
(* Properties of the limit the first FILE_READ is sent with                *)
(***************************************************************************)

\* ceil(86400 / interval_seconds)
PerDay(interval_seconds) == -((-86400) \div interval_seconds)

\* the limit of the call under way, from its survey, the interval of its
\* profile and what the cache held under its key when the call began
InitialLimit ==
    LET heuristic ==
            IF call.survey = 773 THEN 59
            ELSE IF call.survey = 837 THEN 288
            ELSE IF pspec.Interval > 0 THEN PerDay(pspec.Interval)
            ELSE 48
        key == <<call.survey, file_info.RecordSize, pspec.ChannelsCount>>
    IN  IF key \in DOMAIN meter.cache0
        THEN (IF meter.cache0[key] < heuristic THEN meter.cache0[key] ELSE heuristic)
        ELSE heuristic

\* C39: the limit L a call of edmi_read_profile starts its FILE_READs with is
\* min(heuristic, cached) when the cache holds a limit under (survey,
\* record_size, channels_count) and the heuristic otherwise: 59 for LS01, 288
\* for LS03, else ceil(86400 / interval) for an interval > 0, else 48; the
\* first FILE_READ asks for L records, or for all that are to be read when
\* they are fewer.
Thm_C39_InitialLimit ==
    /\ (PastSearches /\ mpc = "read" /\ Reads(sent) = <<>>) =>
          /\ rrd.per_read_limit = InitialLimit
          /\ rrd.cache_key = <<call.survey, file_info.RecordSize, pspec.ChannelsCount>>
    /\ (PastSearches /\ Reads(sent) # <<>>) =>
          FirstRead.arg = Min(rrd.total, InitialLimit)

\* LS03 with an empty cache: the limit is 288 and the first FILE_READ asks
\* for the whole window
Wit_C39_Ls03Starts288 ==
    /\ PastSearches
    /\ call.survey = EDMISurvey_LS03
    /\ meter.cache0 = NoCache
    /\ InitialLimit = 288
    /\ Len(Reads(sent)) = 1
    /\ FirstRead.arg = MaxStart

(***************************************************************************)
(* Properties of the progress callback                                     *)
(***************************************************************************)

\* next_start as the i-th FILE_READ of the call left it: the start of the
\* request after it, or next_start itself behind the last
StartAfter(i) ==
    IF i < Len(Reads(sent)) THEN Reads(sent)[i + 1].start ELSE rrd.next_start

\* the whole records the i-th FILE_READ yielded: none when the exchange
\* raised, the parser returned an error or no whole record was in the answer
Yielded(i) == StartAfter(i) - Reads(sent)[i].start

\* one callback for each FILE_READ that yielded a record and for no other,
\* with the records read up to and including it and the total of the call;
\* the first argument grows from callback to callback
ProgressMatchesChunks ==
    /\ Len(progress) = Cardinality({i \in 1..Len(Reads(sent)) : Yielded(i) >= 1})
    /\ \A j \in 1..Len(progress) :
          /\ Yielded(j) >= 1
          /\ Reads(sent)[j].err = ERR_NONE
          /\ progress[j] = <<StartAfter(j) - loc.from_start, rrd.total>>
    /\ \A j \in 1..Len(progress) : progress[j][1] >= 1
    /\ \A j \in 1..(Len(progress) - 1) : progress[j][1] < progress[j + 1][1]

\* a step that changes what the callback has seen is the start of a call, or
\* one FILE_READ whose answer the parser accepted, and it adds one callback
\* with records_read and the total
OneCallbackPerChunk ==
    progress' # progress =>
        \/ progress' = <<>>
        \/ /\ mpc = "read"
           /\ progress' = Append(progress, <<rrd'.records_read, rrd.total>>)
           /\ rrd'.records_read > rrd.records_read
           /\ rrd'.total = rrd.total
           /\ Len(Reads(sent')) = Len(Reads(sent)) + 1
           /\ sent'[Len(sent')].kind = "FILE_READ"
           /\ sent'[Len(sent')].err = ERR_NONE

\* C40: progress_cb is called exactly once after each FILE_READ whose answer
\* was parsed without error and yielded at least one whole record, with
\* (records read so far, total); the first argument is strictly increasing,
\* the total is the clamped record count of the call in every callback, and a
\* FILE_READ that fails gets no callback.
Thm_C40_ProgressReporting ==
    /\ []ProgressMatchesChunks
    /\ [][OneCallbackPerChunk]_vars

\* three records read by two FILE_READs, of two records and of one: the
\* callbacks were (2, 3) and (3, 3)
Wit_C40_TwoCallbacks ==
    /\ mpc = "returned"
    /\ mret.kind = "return" /\ mret.err = ERR_NONE
    /\ Len(Reads(sent)) = 2
    /\ progress = <<<<2, 3>>, <<3, 3>>>>

(***************************************************************************)
(* Properties of the register parser's loop                                *)
(***************************************************************************)

\* edmi_parse_read_registers_answer has returned from a pass of its loop that
\* read an error byte other than NONE and REGISTER_NOT_FOUND for a register
\* whose value_len does not fit behind it in the data (idx is past that byte)
ErrorByteOverflows ==
    /\ ppc = "done" /\ req.op = "read_registers" /\ regno >= 1
    /\ regs[regno].ErrorCode \in 1..255
    /\ regs[regno].ErrorCode # ERR_REGISTER_NOT_FOUND
    /\ At(resp, idx - 1) = regs[regno].ErrorCode
    /\ idx + regs[regno].ValueLen > Len(resp) - 3

\* C25: for every error byte e of 1..255 other than REGISTER_NOT_FOUND, when
\* value_len bytes behind the error byte would run over the data, the parser
\* stops and returns e as its result.
Claim_C25_OtherErrorsReturned ==
    ErrorByteOverflows => result = Returned(regs[regno].ErrorCode)

\* the error byte 255, with nothing behind it, has made the parser raise
Wit_C25_ValueErrorRaised ==
    /\ ErrorByteOverflows
    /\ regs[regno].ErrorCode = 255
    /\ result = Raised("ValueError")

\* the results that say the length is wrong
LengthErrors == {Returned(ERR_REQUEST_WRONG_LENGTH), Returned(ERR_RESPONSE_WRONG_LENGTH)}

\* (a pass that begins inside the data leaves the cursor at the end of the
\* data at most; one that begins behind it leaves the cursor further on)
\* C26: the register parser reads the error byte and the value bytes of each
\* register at indices 17..len-4 only, and returns a length error when the
\* response holds fewer register entries than were asked for.
Claim_C26_StaysInsideData ==
    /\ ppc = "regs" => idx <= Len(resp) - 4
    /\ (ppc = "done" /\ req.op = "read_registers" /\ regno >= 1 /\ idx > Len(resp) - 3)
           => result \in LengthErrors

\* two registers were asked for and the answer holds one: the second
\* register's error byte was taken from behind the data, and the parser did
\* not return a length error
Wit_C26_ErrorByteFromCrc ==
    /\ ppc = "done" /\ req.op = "read_registers"
    /\ Len(regs) = 2 /\ regno = 2
    /\ regs[1].Value.present
    /\ idx - 1 = Len(resp) - 3
    /\ regs[2].ErrorCode = At(resp, Len(resp) - 3)
    /\ result \notin LengthErrors

\* the loop is about to read a register of a string type whose error byte,
\* inside the data, is NONE
StringPassAhead ==
    /\ ppc = "regs"
    /\ regs[regno].Type \in StringTypes
    /\ idx <= Len(resp) - 4
    /\ At(resp, idx) = ERR_NONE

\* the window the claim speaks of: up to value_len bytes behind the error
\* byte, inside the data
StringWindow ==
    LET available == (Len(resp) - 3) - (idx + 1)
    IN  Slice(resp, idx + 1, idx + 1 + Min(regs[regno].ValueLen, available))

\* the window has a NUL at 0-based position n, and none before it
FirstNulAt(window, n) ==
    /\ n + 1 \in 1..Len(window)
    /\ window[n + 1] = 0
    /\ \A k \in 1..n : window[k] # 0

TruncatedReadParsed ==
    /\ ppc = "done" /\ req.op = "file_read" /\ result = Returned(ERR_NONE)
    /\ rd # NoRead
    /\ out.RecordSize > 0
    /\ 28 + (out.RecordsCount * out.RecordSize) > Len(resp) - 3

\* C24: when the data end before all the declared records, the parser stops
\* at the last complete record: the fields returned are those of complete
\* records, a multiple of ProfileSpec.ChannelsCount in number, ChannelsCount
\* having been set anew only by a partial first record.
Claim_C24_WholeRecordsOnly ==
    TruncatedReadParsed =>
        IF out.ChannelsCount > 0
        THEN Len(out.fields) % out.ChannelsCount = 0
        ELSE out.fields = <<>>

\* two records of two channels were declared and the data end inside the
\* second: its first value was kept, and ChannelsCount is still 2
Wit_C24_PartialRecordKept ==
    /\ TruncatedReadParsed
    /\ out.RecordsCount = 2
    /\ rd.record = 1
    /\ out.ChannelsCount = 2
    /\ Len(out.fields) = 3

\* the codec at work, no exchange under way
InitCodec == CodecInit /\ ParseIdle /\ MediaIdle /\ LockIdle /\ ReadIdle /\ TransportIdle

SpecCodec == InitCodec /\ [][CodecNext]_vars

\* one exchange, its frames handled by the codec's functions
InitParse == ParseInit /\ CodecIdle /\ MediaIdle /\ LockIdle /\ ReadIdle /\ TransportIdle

SpecParse == InitParse /\ [][ParseNext]_vars

\* calls of edmi_read_profile, one after another
InitMedia == MediaInit /\ CodecIdle /\ ParseIdle /\ LockIdle /\ ReadIdle /\ TransportIdle

SpecMedia == InitMedia /\ [][MediaNext]_vars
\* one call of edmi_read_profile, the last of the MaxCalls; the loop of
\* _read_records runs on: each pass ends, by an answer or by the serial timeout
InitMediaLastCall ==
    /\ MediaInitAfter(MaxCalls - 1)
    /\ CodecIdle /\ ParseIdle /\ LockIdle /\ ReadIdle /\ TransportIdle
SpecMediaFair == InitMediaLastCall /\ [][MediaNext]_vars /\ WF_vars(ReadStep)

\* caller threads around the engine lock
InitLock == LockInit /\ CodecIdle /\ ParseIdle /\ MediaIdle /\ ReadIdle /\ TransportIdle

SpecLock == InitLock /\ [][LockNext]_vars

\* the same, every operation that holds the lock goes on: each transport
\* call comes back, with an answer or with a fault, within its timeout
SpecLockFair == SpecLock /\ \A t \in Threads : WF_vars(Running(t))

\* one framed read, nothing else under way
InitRead ==
    ReadInit /\ CodecIdle /\ ParseIdle /\ MediaIdle /\ LockIdle /\ TransportIdle
SpecRead == InitRead /\ [][ReadNext]_vars

\* one SerialTransport and the calls made on it
InitTransport ==
    TransportInit /\ CodecIdle /\ ParseIdle /\ MediaIdle /\ LockIdle /\ ReadIdle
SpecTransport == InitTransport /\ [][TransportNext]_vars

====
